---- MODULE Spec2Model ----
(***************************************************************************)
(* Model of the mcp-hub plugin manager (internal/plugin/manager.go), of    *)
(* the tool registry (internal/registry/registry.go) it drives, of the     *)
(* config watcher (internal/watcher) and of main's start and shutdown, of  *)
(* the downstream adapter (internal/server) that republishes the registry  *)
(* and of the transports (internal/transport): the event-stream transport, *)
(* the stdio transports and the timers of their requests.                  *)
(*                                                                         *)
(* Every manager method is split at the points where it releases a lock    *)
(* or performs I/O, so that concurrent callers interleave exactly where    *)
(* the goroutines of the program can.                                      *)
(*                                                                         *)
(* Behaviour of the MCP SDK that the manager relies on and that is not     *)
(* part of the repository:                                                 *)
(*   - ClientSession.Close tears the session down whether or not it        *)
(*     returns an error;                                                   *)
(*   - CallTool on a closed session returns an error.                      *)
(***************************************************************************)
EXTENDS Integers, Sequences, FiniteSets, TLC

\* ------------------------------------------------------------------ bounds
NThreads == 2          \* concurrent callers of the manager
MaxSessions == 2       \* sessions ever connected in one behaviour
MaxCalls == 3          \* manager calls made in one behaviour
MaxSubs == 1           \* streams ever handed out by Registry.Subscribe
MaxRegOps == 3         \* register/unregister calls made on the registry alone
MaxWrites == 2         \* writes to the config file in one behaviour
Debounce == 2          \* the 500 ms of debounceDelay, in clock ticks
MaxDownstreamCalls == 1  \* tools/call requests of downstream clients
MaxRequests == 2       \* concurrent SendRequest calls on one SSE transport
MaxExtraReplies == 1   \* envelopes of the peer that answer no open request
MaxStdioCalls == 2     \* SendRequest calls on one stdio transport
MaxOpens == 2          \* Start calls on one stdio transport
MaxTimeout == 3        \* longest transport timeout, in clock ticks

\* ------------------------------------------------------------ input sets
Names == {"a", "b"}                 \* server names of the config
\* what each peer answers to tools/list: both peers expose a tool named "x"
Catalog == [n \in Names |-> IF n = "a" THEN {"x"} ELSE {"x", "y"}]
Threads == 1..NThreads
Ops == {"start", "stop", "reload", "stopAll", "execute"}
NoSess == 0

VARIABLES
    servers,    \* Manager.servers : name -> session id
    sessions,   \* every session ever connected, by id (1..Len)
    tools,      \* Registry.tools : id -> Tool
    subs,       \* Registry.subs : channel -> buffered snapshots (cap 1)
    pc,         \* per caller: position inside the manager method
    call,       \* per caller: the method and its arguments
    loc,        \* per caller: local variables of the method
    res,        \* per caller: the returned error kind ("ok" = nil)
    regBy,      \* history: registry id -> session whose start registered it
    stopped,    \* history: names stopped, with no start or reload begun since
    ncalls,     \* history: number of manager calls made so far
    closedCh,   \* closed streams : channel -> what it still buffers (buf),
                \* and how many states the registry had held then (at)
    got,        \* per stream: the snapshots its subscriber has received
    hist,       \* history: the tool sets the registry has held, in order
    lastConfig, \* Watcher.lastConfig : name -> entry
    newConfig,  \* the config handleConfigChange has loaded
    wpc,        \* position of main / of the watcher's handleConfigChange
    wtodo,      \* names the current loop over a server map has yet to visit
    issued,     \* history: manager calls the current reconciliation issued
    expired,    \* the deadline of main's shutdownCtx has passed
    hung,       \* sessions whose Close was called and never returns
    file,       \* what the config file on disk holds
    timers,     \* armed time.AfterFunc timers: ticks left until each fires
    rec,        \* per goroutine: the handleConfigChange running in it
    nwrites,    \* history: number of writes to the config file so far
    gap,        \* history: ticks since the last file event (up to Debounce)
    pending,    \* history: events of the current burst, none reconciled yet
    registered, \* server.New: the map of tool names it has added
    published,  \* the tools of the downstream SDK server, by name
    forwarded,  \* history: the Execute calls made by downstream handlers
    connected,  \* SSETransport.connected
    requestID,  \* SSETransport.requestID
    responses,  \* SSETransport.responses : id -> the channel of a caller
    slot,       \* per SendRequest call: what its respCh buffers (cap 1)
    sreq,       \* per SendRequest call: its position, its id, its return
    posted,     \* ids of the requests the peer has received
    stream,     \* events the peer has written and the reader has not read
    emitted,    \* history: the envelopes with an id the peer wrote, in order
    sseClosed,  \* history: SSETransport.Close has been called
    panicked,   \* the panic that ended the process ("" while it runs)
    sconn,      \* StdioTransport.connected
    srequestID, \* StdioTransport.requestID
    children,   \* the child processes Start has launched, oldest first
    streq,      \* per stdio SendRequest call: position, id, return, reader
    tclock,     \* the clock of the timed request
    treq        \* the timed request: its transport, its timers, its end

\* the watcher's event loop and the goroutines of its debounce timer
loopVars == <<file, timers, rec, nwrites, gap, pending>>

\* the downstream adapter
adapterVars == <<registered, published, forwarded>>

\* the event-stream (SSE) transport
sseVars == <<connected, requestID, responses, slot, sreq, posted, stream,
            emitted, sseClosed, panicked>>

\* the stdio transports (child process and container)
stdioVars == <<sconn, srequestID, children, streq>>

\* one request and the clock its timers run on
timeVars == <<tclock, treq>>

restVars == <<loopVars, adapterVars, sseVars, stdioVars, timeVars>>

\* everything outside the manager and the registry's tool map
envVars == <<closedCh, got, hist, lastConfig, newConfig, wpc, wtodo, issued,
             expired, hung, restVars>>

vars == <<servers, sessions, tools, subs, pc, call, loc, res, regBy, stopped,
          ncalls, envVars>>

\* ------------------------------------------------------------ config model
\* config.ServerConfig, with the fields the model varies
Entry(disabled, timeout, command) ==
    [Disabled |-> disabled, Timeout |-> timeout, Command |-> command]

\* an entry, the same with another timeout, a disabled one, and one that
\* does not validate (stdio transport without command)
Entries == {Entry(FALSE, 0, "c"), Entry(FALSE, 1, "c"),
            Entry(TRUE, 0, "c"), Entry(FALSE, 0, "")}

\* config.Config.MCPServers: what a config file that parses can hold
Configs == UNION {[ns -> Entries] : ns \in SUBSET Names}

\* Config.Validate: every enabled server needs what its transport requires
Validate(c) == \A n \in DOMAIN c : c[n].Disabled \/ c[n].Command # ""

\* Config.GetEnabledServers
GetEnabledServers(c) == [n \in {m \in DOMAIN c : ~c[m].Disabled} |-> c[n]]

\* one member of the JSON object, left out when the value is the zero value
\* (the omitempty tag)
Member(key, text, isZero) == IF isZero THEN <<>> ELSE <<key \o ":" \o text>>

\* json.Marshal leaving the timeout out of the object
MarshalWithoutTimeout(e) ==
    Member("disabled", "true", ~e.Disabled)
        \o Member("command", e.Command, e.Command = "")

\* json.Marshal(ServerConfig): the members in the order of the struct fields
Marshal(e) ==
    Member("disabled", "true", ~e.Disabled)
        \o Member("timeout", IF e.Timeout = 1 THEN "1" ELSE "0", e.Timeout = 0)
        \o Member("command", e.Command, e.Command = "")

\* configEqual reporting every pair of entries as different
configEqualNever(a, b) == FALSE

\* configEqual: reflect.DeepEqual of the two JSON representations
configEqual(a, b) == Marshal(a) = Marshal(b)

\* ------------------------------------------------------------- data model
\* registry.Tool
Tool(id, name, pluginID) == [ID |-> id, Name |-> name, PluginID |-> pluginID]

\* the id the spec asks for: owner, separator, server-local name
NamespacedID(n, t) == n \o ":" \o t

\* the id StartServer gives a discovered tool: ID: tool.Name
ToolID(n, t) == t

\* the projection of a discovered list into registry tools
RegistryTools(n, ts) == {Tool(ToolID(n, t), t, n) : t \in ts}

\* the zero value of config.ServerConfig
NoEntry == Entry(FALSE, 0, "")

NoCall == [op |-> "none", name |-> "none", argsOK |-> TRUE, cfg |-> NoEntry]
NoLoc == [sess |-> NoSess, found |-> {}, todo |-> {}, snap |-> {},
          errs |-> {}, sent |-> 0, reply |-> "none"]

\* a connected session, and the entry its transport was built from
Session(n, cfg) ==
    [name |-> n, closed |-> FALSE, listed |-> FALSE, mu |-> 0, cfg |-> cfg]

SessIds == 1..Len(sessions)

\* ---------------------------------------------------------------- registry
\* Registry.sliceLocked
sliceLocked(tm) == {tm[id] : id \in DOMAIN tm}

\* Registry.broadcastLocked: non-blocking send of the snapshot to each channel
broadcastLocked(tm, sb) ==
    [ch \in DOMAIN sb |->
        IF Len(sb[ch]) < 1 THEN Append(sb[ch], sliceLocked(tm)) ELSE sb[ch]]

\* the tool map after Registry.RegisterTools(pluginID, ts)
RegisterTools(tm, pluginID, ts) ==
    [id \in DOMAIN tm \cup {t.ID : t \in ts} |->
        IF \E t \in ts : t.ID = id
        THEN LET t == CHOOSE u \in ts : u.ID = id
             IN  Tool(t.ID, t.Name, pluginID)
        ELSE tm[id]]

\* the tool map after Registry.UnregisterTools(pluginID)
UnregisterTools(tm, pluginID) ==
    [id \in {i \in DOMAIN tm : tm[i].PluginID # pluginID} |-> tm[id]]

\* ------------------------------------------------------------------ helpers
Finish(t, r) ==
    /\ pc' = [pc EXCEPT ![t] = "done"]
    /\ res' = [res EXCEPT ![t] = r]

Goto(t, l) ==
    /\ pc' = [pc EXCEPT ![t] = l]
    /\ UNCHANGED res

\* ClientSession.Close
CloseSession(ss, s) == [ss EXCEPT ![s].closed = TRUE]

\* a map with no key (make(map[...]...))
EmptyMap == [k \in {} |-> 0]

\* m[k] = v
MapPut(m, k, v) == [j \in DOMAIN m \cup {k} |-> IF j = k THEN v ELSE m[j]]

\* delete(m, k)
MapDelete(m, k) == [j \in DOMAIN m \ {k} |-> m[j]]

\* registry.New, and no subscriber yet
RegistryNew ==
    /\ closedCh = EmptyMap
    /\ got = EmptyMap
    /\ hist = <<{}>>

\* no watcher, no shutdown in progress
NoMain ==
    /\ lastConfig = EmptyMap
    /\ newConfig = EmptyMap
    /\ wpc = "off"
    /\ wtodo = {}
    /\ issued = <<>>
    /\ expired = FALSE
    /\ hung = {}

\* a goroutine that is not running handleConfigChange
NoRec == [pc |-> "off", new |-> EmptyMap, old |-> EmptyMap, todo |-> {},
          log |-> <<>>, pre |-> FALSE, out |-> "none", burst |-> 0]

\* no watcher loop: no config file, no timer
NoLoop ==
    /\ file = [parses |-> FALSE, cfg |-> EmptyMap]
    /\ timers = <<>>
    /\ rec = [g \in Threads |-> NoRec]
    /\ nwrites = 0
    /\ gap = Debounce
    /\ pending = 0

\* no downstream adapter
NoAdapter ==
    /\ registered = {}
    /\ published = {}
    /\ forwarded = <<>>

\* a SendRequest call that has not begun
NoRequest ==
    [pc |-> "idle", kind |-> "request", id |-> 0, err |-> "", result |-> 0]

\* NewSSETransport: not connected, no request in flight
NoSSE ==
    /\ connected = FALSE
    /\ requestID = 0
    /\ responses = EmptyMap
    /\ slot = [c \in 1..MaxRequests |-> <<>>]
    /\ sreq = [c \in 1..MaxRequests |-> NoRequest]
    /\ posted = {}
    /\ stream = <<>>
    /\ emitted = <<>>
    /\ sseClosed = FALSE
    /\ panicked = ""

\* a line of a child's stdout: a response with an id, or a notification
Line(kind, id) == [kind |-> kind, id |-> id]
NoLine == Line("none", 0)

\* a stdio SendRequest call that has not begun; rdr is the goroutine the
\* call starts to read the response, gen the child whose stdout it reads
NoStdioRequest ==
    [pc |-> "idle", id |-> 0, err |-> "", result |-> NoLine,
     rdr |-> "none", gen |-> 0, got |-> NoLine]

\* NewStdioTransport: not connected, no child
NoStdio ==
    /\ sconn = FALSE
    /\ srequestID = 0
    /\ children = <<>>
    /\ streq = [c \in 1..MaxStdioCalls |-> NoStdioRequest]

\* no timed request
NoTimed ==
    /\ tclock = 0
    /\ treq = [pc |-> "none"]

\* plugin.NewManager(registry.New())
NewManager ==
    /\ servers = EmptyMap
    /\ sessions = <<>>
    /\ tools = EmptyMap
    /\ subs = EmptyMap
    /\ pc = [t \in Threads |-> "idle"]
    /\ call = [t \in Threads |-> NoCall]
    /\ loc = [t \in Threads |-> NoLoc]
    /\ res = [t \in Threads |-> "none"]
    /\ regBy = EmptyMap
    /\ stopped = {}
    /\ ncalls = 0

Init ==
    /\ NewManager /\ RegistryNew /\ NoMain /\ NoLoop /\ NoAdapter /\ NoSSE
    /\ NoStdio /\ NoTimed

\* ------------------------------------------------------------ invocation
FirstLabel(op) ==
    CASE op = "start"   -> "start_check"
      [] op = "stop"    -> "stop_lookup"
      [] op = "reload"  -> "reload_get"
      [] op = "stopAll" -> "stopall_snap"
      [] op = "execute" -> "exec_lookup"

\* a caller invokes a manager method; limit = how many calls may overlap
Invoke(t, limit) ==
    /\ pc[t] = "idle"
    /\ ncalls < MaxCalls
    /\ ncalls' = ncalls + 1
    /\ Cardinality({u \in Threads : pc[u] \notin {"idle", "done"}}) < limit
    /\ \E op \in Ops, n \in Names \cup {"none"}, ok \in BOOLEAN :
        /\ (op # "execute") => ok
        /\ (op = "stopAll") <=> (n = "none")
        /\ call' = [call EXCEPT ![t] = [op |-> op, name |-> n, argsOK |-> ok,
                                        cfg |-> Entry(FALSE, 0, "c")]]
        /\ pc' = [pc EXCEPT ![t] = FirstLabel(op)]
    /\ UNCHANGED <<servers, sessions, tools, subs, loc, res, regBy, stopped>>
    /\ UNCHANGED envVars

\* the method returns to its caller
Return(t) ==
    /\ pc[t] = "done"
    /\ pc' = [pc EXCEPT ![t] = "idle"]
    /\ call' = [call EXCEPT ![t] = NoCall]
    /\ loc' = [loc EXCEPT ![t] = NoLoc]
    /\ res' = [res EXCEPT ![t] = "none"]
    /\ UNCHANGED <<servers, sessions, tools, subs, regBy, stopped, ncalls>>
    /\ UNCHANGED envVars

\* ----------------------------------------------------- Manager.StartServer
\* m.mu.Lock(); if _, exists := m.servers[name]; exists { return error }
StartCheck(t) ==
    /\ pc[t] = "start_check"
    /\ IF call[t].name \in DOMAIN servers
       THEN Finish(t, "AlreadyRunning")
       ELSE Goto(t, "start_connect")
    /\ stopped' = stopped \ {call[t].name}
    /\ UNCHANGED <<servers, sessions, tools, subs, call, loc, regBy, ncalls>>
    /\ UNCHANGED envVars

\* StartServer storing the server in m.servers as soon as it is connected
StartConnectStoresEarly(t) ==
    /\ pc[t] = "start_connect"
    /\ \/ /\ Finish(t, "ConnectFailed")
          /\ UNCHANGED <<servers, sessions, loc>>
       \/ /\ Len(sessions) < MaxSessions
          /\ sessions' = Append(sessions, Session(call[t].name, call[t].cfg))
          /\ loc' = [loc EXCEPT ![t].sess = Len(sessions) + 1]
          /\ servers' = MapPut(servers, call[t].name, Len(sessions) + 1)
          /\ Goto(t, "start_list")
    /\ UNCHANGED <<tools, subs, call, regBy, stopped, ncalls>>
    /\ UNCHANGED envVars

\* session, err := client.Connect(ctx, transport, nil)
StartConnect(t) ==
    /\ pc[t] = "start_connect"
    /\ \/ /\ Finish(t, "ConnectFailed")
          /\ UNCHANGED <<sessions, loc>>
       \/ /\ Len(sessions) < MaxSessions
          /\ sessions' = Append(sessions, Session(call[t].name, call[t].cfg))
          /\ loc' = [loc EXCEPT ![t].sess = Len(sessions) + 1]
          /\ Goto(t, "start_list")
    /\ UNCHANGED <<servers, tools, subs, call, regBy, stopped, ncalls>>
    /\ UNCHANGED envVars

\* StartServer returning the ListTools error without session.Close()
StartListNoClose(t) ==
    /\ pc[t] = "start_list"
    /\ LET s == loc[t].sess IN
       \/ /\ Finish(t, "ListFailed")
          /\ UNCHANGED <<sessions, loc>>
       \/ /\ sessions' = [sessions EXCEPT ![s].listed = TRUE]
          /\ loc' = [loc EXCEPT ![t].found = Catalog[call[t].name]]
          /\ Goto(t, "start_register")
    /\ UNCHANGED <<servers, tools, subs, call, regBy, stopped, ncalls>>
    /\ UNCHANGED envVars

\* toolsResult, err := session.ListTools(...); on error session.Close()
StartList(t) ==
    /\ pc[t] = "start_list"
    /\ LET s == loc[t].sess IN
       \/ /\ sessions' = CloseSession(sessions, s)
          /\ Finish(t, "ListFailed")
          /\ UNCHANGED loc
       \/ /\ sessions' = [sessions EXCEPT ![s].listed = TRUE]
          /\ loc' = [loc EXCEPT ![t].found = Catalog[call[t].name]]
          /\ Goto(t, "start_register")
    /\ UNCHANGED <<servers, tools, subs, call, regBy, stopped, ncalls>>
    /\ UNCHANGED envVars

\* m.reg.RegisterTools(name, registryTools)
StartRegister(t) ==
    /\ pc[t] = "start_register"
    /\ LET s == loc[t].sess
           n == call[t].name
           rts == RegistryTools(n, loc[t].found)
       IN  /\ tools' = RegisterTools(tools, n, rts)
           /\ subs' = broadcastLocked(tools', subs)
           /\ regBy' = [id \in DOMAIN tools' |->
                          IF \E r \in rts : r.ID = id THEN s ELSE regBy[id]]
    /\ Goto(t, "start_store")
    /\ UNCHANGED <<servers, sessions, call, loc, stopped, ncalls>>
    /\ UNCHANGED envVars

\* m.mu.Lock(); m.servers[name] = server; m.mu.Unlock(); return nil
StartStore(t) ==
    /\ pc[t] = "start_store"
    /\ servers' = MapPut(servers, call[t].name, loc[t].sess)
    /\ Finish(t, "ok")
    /\ UNCHANGED <<sessions, tools, subs, call, loc, regBy, stopped, ncalls>>
    /\ UNCHANGED envVars

\* ------------------------------------------------------ Manager.StopServer
\* lookup under m.mu; not found -> error; else delete(m.servers, name)
StopLookup(t) ==
    /\ pc[t] = "stop_lookup"
    /\ LET n == call[t].name IN
       IF n \notin DOMAIN servers
       THEN /\ Finish(t, IF call[t].op = "reload" THEN "ReloadStopFailed"
                         ELSE "NotFound")
            /\ UNCHANGED <<servers, loc>>
       ELSE /\ loc' = [loc EXCEPT ![t].sess = servers[n]]
            /\ servers' = MapDelete(servers, n)
            /\ Goto(t, "stop_unreg")
    /\ UNCHANGED <<sessions, tools, subs, call, regBy, stopped, ncalls>>
    /\ UNCHANGED envVars

\* StopServer without the call to UnregisterTools
StopUnregisterMissing(t) ==
    /\ pc[t] = "stop_unreg"
    /\ Goto(t, "stop_close")
    /\ UNCHANGED <<servers, sessions, tools, subs, call, loc, regBy, stopped,
                   ncalls>>
    /\ UNCHANGED envVars

\* m.reg.UnregisterTools(name)
StopUnregister(t) ==
    /\ pc[t] = "stop_unreg"
    /\ tools' = UnregisterTools(tools, call[t].name)
    /\ subs' = broadcastLocked(tools', subs)
    /\ regBy' = [id \in DOMAIN tools' |-> regBy[id]]
    /\ Goto(t, "stop_close")
    /\ UNCHANGED <<servers, sessions, call, loc, stopped, ncalls>>
    /\ UNCHANGED envVars

\* server.session.Close(); an error is returned to the caller.
\* Inside ReloadServer a clean stop continues with StartServer.
StopClose(t) ==
    /\ pc[t] = "stop_close"
    /\ sessions' = CloseSession(sessions, loc[t].sess)
    /\ \E err \in BOOLEAN :
        IF call[t].op = "reload"
        THEN /\ IF err THEN Finish(t, "ReloadStopFailed") /\ UNCHANGED loc
                       ELSE /\ Goto(t, "start_check")
                            /\ loc' = [loc EXCEPT ![t].sess = NoSess]
             /\ UNCHANGED stopped
        ELSE /\ Finish(t, IF err THEN "CloseFailed" ELSE "ok")
             /\ stopped' = stopped \cup {call[t].name}
             /\ UNCHANGED loc
    /\ UNCHANGED <<servers, tools, subs, call, regBy, ncalls>>
    /\ UNCHANGED envVars

\* ---------------------------------------------------- Manager.ReloadServer
\* if _, exists := m.GetServer(name); exists { StopServer } ; StartServer
ReloadGet(t) ==
    /\ pc[t] = "reload_get"
    /\ IF call[t].name \in DOMAIN servers
       THEN Goto(t, "stop_lookup")
       ELSE Goto(t, "start_check")
    /\ stopped' = stopped \ {call[t].name}
    /\ UNCHANGED <<servers, sessions, tools, subs, call, loc, regBy, ncalls>>
    /\ UNCHANGED envVars

\* --------------------------------------------------------- Manager.StopAll
\* copy the sessions of m.servers under m.mu
StopAllSnapshot(t) ==
    /\ pc[t] = "stopall_snap"
    /\ LET ss == {servers[n] : n \in DOMAIN servers} IN
        /\ loc' = [loc EXCEPT ![t].todo = ss, ![t].snap = ss]
        /\ IF ss = {} THEN Finish(t, "ok") ELSE Goto(t, "stopall_close")
    /\ UNCHANGED <<servers, sessions, tools, subs, call, regBy, stopped, ncalls>>
    /\ UNCHANGED envVars

\* StopAll returning at the first Close error
StopAllCloseStopsOnError(t) ==
    /\ pc[t] = "stopall_close"
    /\ \E s \in loc[t].todo, err \in BOOLEAN :
        /\ sessions' = CloseSession(sessions, s)
        /\ loc' = [loc EXCEPT ![t].todo = @ \ {s},
                              ![t].errs = IF err THEN @ \cup {s} ELSE @]
        /\ IF loc[t].todo = {s} \/ err THEN Finish(t, "ok")
                                        ELSE Goto(t, "stopall_close")
    /\ UNCHANGED <<servers, tools, subs, call, regBy, stopped, ncalls>>
    /\ UNCHANGED envVars

\* one iteration of: for _, s := range servers { s.session.Close() }
\* (the slice was filled in map order, so any order is possible)
StopAllClose(t) ==
    /\ pc[t] = "stopall_close"
    /\ \E s \in loc[t].todo, err \in BOOLEAN :
        /\ sessions' = CloseSession(sessions, s)
        /\ loc' = [loc EXCEPT ![t].todo = @ \ {s},
                              ![t].errs = IF err THEN @ \cup {s} ELSE @]
        /\ IF loc[t].todo = {s} THEN Finish(t, "ok")
                                ELSE Goto(t, "stopall_close")
    /\ UNCHANGED <<servers, tools, subs, call, regBy, stopped, ncalls>>
    /\ UNCHANGED envVars

\* --------------------------------------------------------- Manager.Execute
\* server, ok := m.servers[pluginID] under m.mu
ExecLookup(t) ==
    /\ pc[t] = "exec_lookup"
    /\ LET n == call[t].name IN
       IF n \notin DOMAIN servers
       THEN /\ Finish(t, "NotFound")
            /\ UNCHANGED loc
       ELSE /\ loc' = [loc EXCEPT ![t].sess = servers[n]]
            /\ Goto(t, "exec_lock")
    /\ UNCHANGED <<servers, sessions, tools, subs, call, regBy, stopped, ncalls>>
    /\ UNCHANGED envVars

\* a mutation of ExecLock: the caller goes on without waiting for
\* server.mu
ExecLockNoWait(t) ==
    /\ pc[t] = "exec_lock"
    /\ IF call[t].argsOK
       THEN /\ sessions' = [sessions EXCEPT ![loc[t].sess].mu = t]
            /\ Goto(t, "exec_call")
       ELSE /\ Finish(t, "BadArguments")
            /\ UNCHANGED sessions
    /\ UNCHANGED <<servers, tools, subs, call, loc, regBy, stopped, ncalls>>
    /\ UNCHANGED envVars

\* server.mu.Lock(); json.Unmarshal(arguments, &args), error -> return
ExecLock(t) ==
    /\ pc[t] = "exec_lock"
    /\ sessions[loc[t].sess].mu = 0
    /\ IF call[t].argsOK
       THEN /\ sessions' = [sessions EXCEPT ![loc[t].sess].mu = t]
            /\ Goto(t, "exec_call")
       ELSE /\ Finish(t, "BadArguments")
            /\ UNCHANGED sessions
    /\ UNCHANGED <<servers, tools, subs, call, loc, regBy, stopped, ncalls>>
    /\ UNCHANGED envVars

\* Execute without the result.IsError check
ExecResultIgnoresIsError(reply) ==
    CASE reply = "error"   -> "CallFailed"
      [] reply = "isError" -> "ok"
      [] reply = "result"  -> "ok"

\* what Execute returns for the peer's reply to tools/call
ExecResult(reply) ==
    CASE reply = "error"   -> "CallFailed"
      [] reply = "isError" -> "ToolError"
      [] reply = "result"  -> "ok"

\* result, err := server.session.CallTool(...); defer server.mu.Unlock()
ExecCall(t) ==
    /\ pc[t] = "exec_call"
    /\ LET s == loc[t].sess IN
        /\ sessions' = [sessions EXCEPT ![s].mu = 0]
        /\ \E r \in {"result", "error", "isError"} :
            /\ sessions[s].closed => r = "error"
            /\ loc' = [loc EXCEPT ![t].sent = @ + 1, ![t].reply = r]
            /\ Finish(t, ExecResult(r))
    /\ UNCHANGED <<servers, tools, subs, call, regBy, stopped, ncalls>>
    /\ UNCHANGED envVars

\* ------------------------------------------------------------ specification
Step(t) ==
    \/ StartCheck(t) \/ StartConnect(t) \/ StartList(t)
    \/ StartRegister(t) \/ StartStore(t)
    \/ StopLookup(t) \/ StopUnregister(t) \/ StopClose(t)
    \/ ReloadGet(t)
    \/ StopAllSnapshot(t) \/ StopAllClose(t)
    \/ ExecLookup(t) \/ ExecLock(t) \/ ExecCall(t)
    \/ Return(t)

\* callers overlap freely
Next == \E t \in Threads : Invoke(t, NThreads) \/ Step(t)

Spec == Init /\ [][Next]_vars

\* one manager call at a time
NextSeq == \E t \in Threads : Invoke(t, 1) \/ Step(t)

SpecSeq == Init /\ [][NextSeq]_vars

\* ------------------------------------------------------ the registry alone
\* Every method of the Registry holds r.mu from entry to return, so each is
\* one step.  Tools are registered as the manager registers them: for an
\* owner, the tools of its catalog.
Chans == 1..MaxSubs
Channels == DOMAIN subs \cup DOMAIN closedCh

mgrVars == <<servers, sessions, pc, call, loc, res, regBy, stopped, ncalls>>
mainVars == <<lastConfig, newConfig, wpc, wtodo, issued, expired, hung,
             restVars>>

\* RegisterTools(pluginID, tools) without replacing a tool already stored
RegRegisterKeepsExisting(n, ts) ==
    /\ Len(hist) <= MaxRegOps
    /\ LET rts == {r \in RegistryTools(n, ts) : r.ID \notin DOMAIN tools}
       IN  tools' = RegisterTools(tools, n, rts)
    /\ subs' = broadcastLocked(tools', subs)
    /\ hist' = Append(hist, sliceLocked(tools'))
    /\ UNCHANGED <<closedCh, got, mgrVars, mainVars>>

\* Registry.RegisterTools(pluginID, tools)
RegRegister(n, ts) ==
    /\ Len(hist) <= MaxRegOps
    /\ tools' = RegisterTools(tools, n, RegistryTools(n, ts))
    /\ subs' = broadcastLocked(tools', subs)
    /\ hist' = Append(hist, sliceLocked(tools'))
    /\ UNCHANGED <<closedCh, got, mgrVars, mainVars>>

\* UnregisterTools(pluginID) deleting by tool name instead of by owner
RegUnregisterByName(n) ==
    /\ Len(hist) <= MaxRegOps
    /\ tools' = [id \in {i \in DOMAIN tools : tools[i].Name \notin Catalog[n]}
                    |-> tools[id]]
    /\ subs' = broadcastLocked(tools', subs)
    /\ hist' = Append(hist, sliceLocked(tools'))
    /\ UNCHANGED <<closedCh, got, mgrVars, mainVars>>

\* Registry.UnregisterTools(pluginID)
RegUnregister(n) ==
    /\ Len(hist) <= MaxRegOps
    /\ tools' = UnregisterTools(tools, n)
    /\ subs' = broadcastLocked(tools', subs)
    /\ hist' = Append(hist, sliceLocked(tools'))
    /\ UNCHANGED <<closedCh, got, mgrVars, mainVars>>

\* Subscribe that registers the stream without the initial snapshot
RegSubscribeNoSnapshot ==
    /\ Cardinality(Channels) < MaxSubs
    /\ LET ch == Cardinality(Channels) + 1 IN
        /\ subs' = MapPut(subs, ch, <<>>)
        /\ got' = MapPut(got, ch, <<>>)
    /\ UNCHANGED <<tools, closedCh, hist, mgrVars, mainVars>>

\* Registry.Subscribe: ch := make(chan []Tool, 1); r.subs[ch] = struct{}{};
\* ch <- r.sliceLocked()
RegSubscribe ==
    /\ Cardinality(Channels) < MaxSubs
    /\ LET ch == Cardinality(Channels) + 1 IN
        /\ subs' = MapPut(subs, ch, <<sliceLocked(tools)>>)
        /\ got' = MapPut(got, ch, <<>>)
    /\ UNCHANGED <<tools, closedCh, hist, mgrVars, mainVars>>

\* Unsubscribe closing the stream without delete(r.subs, ch)
RegUnsubscribeKeepsSub(ch) ==
    /\ ch \in DOMAIN subs
    /\ ch \notin DOMAIN closedCh
    /\ closedCh' = MapPut(closedCh, ch, [buf |-> subs[ch], at |-> Len(hist)])
    /\ UNCHANGED <<tools, subs, got, hist, mgrVars, mainVars>>

\* Registry.Unsubscribe(ch): delete(r.subs, ch); close(ch)
\* (a closed channel still yields what it has buffered)
RegUnsubscribe(ch) ==
    /\ ch \in DOMAIN subs
    /\ ch \notin DOMAIN closedCh
    /\ subs' = MapDelete(subs, ch)
    /\ closedCh' = MapPut(closedCh, ch, [buf |-> subs[ch], at |-> Len(hist)])
    /\ UNCHANGED <<tools, got, hist, mgrVars, mainVars>>

\* a receive that leaves the snapshot in the stream
ReceiveWithoutDequeue(ch) ==
    /\ ch \in DOMAIN subs /\ subs[ch] # <<>>
    /\ Len(got[ch]) < MaxRegOps
    /\ got' = [got EXCEPT ![ch] = Append(@, Head(subs[ch]))]
    /\ UNCHANGED <<tools, subs, closedCh, hist, mgrVars, mainVars>>

\* the subscriber's receive: for snapshot := range ch
Receive(ch) ==
    /\ \/ /\ ch \in DOMAIN subs /\ subs[ch] # <<>>
          /\ got' = [got EXCEPT ![ch] = Append(@, Head(subs[ch]))]
          /\ subs' = [subs EXCEPT ![ch] = Tail(@)]
          /\ UNCHANGED closedCh
       \/ /\ ch \in DOMAIN closedCh /\ ch \notin DOMAIN subs
          /\ closedCh[ch].buf # <<>>
          /\ got' = [got EXCEPT ![ch] = Append(@, Head(closedCh[ch].buf))]
          /\ closedCh' = [closedCh EXCEPT ![ch].buf = Tail(@)]
          /\ UNCHANGED subs
    /\ UNCHANGED <<tools, hist, mgrVars, mainVars>>

NextReg ==
    \/ \E n \in Names : RegRegister(n, Catalog[n])
    \/ \E n \in Names : RegUnregister(n)
    \/ RegSubscribe
    \/ \E ch \in Chans : RegUnsubscribe(ch)
    \/ \E ch \in Chans : Receive(ch)

SpecReg == Init /\ [][NextReg]_vars

\* every subscriber keeps receiving from its stream
SpecRegFair == SpecReg /\ \A ch \in Chans : WF_vars(Receive(ch))

\* ------------------------------------------------- main and the watcher
\* The goroutine that runs main, and after it handleConfigChange, calls the
\* manager as caller Main.
Main == 1

\* a call of a manager method by main or by the watcher
CallManager(op, n, cfg) ==
    /\ call' = [call EXCEPT ![Main] = [op |-> op, name |-> n, argsOK |-> TRUE,
                                       cfg |-> cfg]]
    /\ pc' = [pc EXCEPT ![Main] = FirstLabel(op)]

regVars == <<tools, subs, closedCh, got, hist>>
mgrData == <<servers, sessions, loc, res, regBy, stopped, ncalls>>

\* main after registry.New, NewManager and config.Load: the config file
\* holds any config that parses; LoadFromConfig validates it before its loop
InitMain ==
    /\ NewManager /\ RegistryNew /\ NoLoop /\ NoAdapter /\ NoSSE
    /\ NoStdio /\ NoTimed
    /\ lastConfig \in Configs
    /\ newConfig = EmptyMap
    /\ wpc = "load"
    /\ wtodo = IF Validate(lastConfig)
               THEN DOMAIN GetEnabledServers(lastConfig) ELSE {}
    /\ issued = <<>>
    /\ expired = FALSE
    /\ hung = {}

\* Manager.LoadFromConfig: one iteration of the loop over enabledServers
LoadNext ==
    /\ wpc = "load" /\ pc[Main] = "idle"
    /\ \E n \in wtodo :
        /\ wtodo' = wtodo \ {n}
        /\ CallManager("start", n, lastConfig[n])
    /\ UNCHANGED <<regVars, mgrData, lastConfig, newConfig, wpc, issued,
                   expired, hung,
                   restVars>>

\* LoadFromConfig returns; main starts the watcher and waits for the signal
LoadDone ==
    /\ wpc = "load" /\ pc[Main] = "idle" /\ wtodo = {}
    /\ wpc' = "watch"
    /\ UNCHANGED <<regVars, mgrVars, lastConfig, newConfig, wtodo, issued,
                   expired, hung,
                   restVars>>

\* Watcher.handleConfigChange up to the first loop of applyConfigChanges:
\* a file that does not parse or does not validate is logged and skipped
HandleConfigChange ==
    /\ wpc = "watch" /\ pc[Main] = "idle"
    /\ \/ UNCHANGED <<newConfig, wpc, wtodo, issued>>
       \/ \E c \in Configs :
            IF Validate(c)
            THEN /\ newConfig' = c
                 /\ wpc' = "stops"
                 /\ wtodo' = DOMAIN GetEnabledServers(lastConfig)
                 /\ issued' = <<>>
            ELSE UNCHANGED <<newConfig, wpc, wtodo, issued>>
    /\ UNCHANGED <<regVars, mgrVars, lastConfig, expired, hung,
                   restVars>>

\* applyConfigChanges, first loop: for name := range oldServers
ApplyStopNext ==
    /\ wpc = "stops" /\ pc[Main] = "idle"
    /\ \E n \in wtodo :
        /\ wtodo' = wtodo \ {n}
        /\ IF n \notin DOMAIN GetEnabledServers(newConfig)
           THEN /\ CallManager("stop", n, NoEntry)
                /\ issued' = Append(issued, <<"stop", n>>)
           ELSE UNCHANGED <<call, pc, issued>>
    /\ UNCHANGED <<regVars, mgrData, lastConfig, newConfig, wpc, expired, hung,
                   restVars>>

\* the first loop ends, the second begins
ApplyStopDone ==
    /\ wpc = "stops" /\ pc[Main] = "idle" /\ wtodo = {}
    /\ wpc' = "adds"
    /\ wtodo' = DOMAIN GetEnabledServers(newConfig)
    /\ UNCHANGED <<regVars, mgrVars, lastConfig, newConfig, issued, expired,
                   hung,
                   restVars>>

\* applyConfigChanges, second loop: for name, newCfg := range newServers
ApplyAddNext ==
    /\ wpc = "adds" /\ pc[Main] = "idle"
    /\ \E n \in wtodo :
        LET oldServers == GetEnabledServers(lastConfig)
            newServers == GetEnabledServers(newConfig)
        IN  /\ wtodo' = wtodo \ {n}
            /\ IF n \notin DOMAIN oldServers
               THEN /\ CallManager("start", n, newServers[n])
                    /\ issued' = Append(issued, <<"start", n>>)
               ELSE IF ~configEqual(oldServers[n], newServers[n])
               THEN /\ CallManager("reload", n, newServers[n])
                    /\ issued' = Append(issued, <<"reload", n>>)
               ELSE UNCHANGED <<call, pc, issued>>
    /\ UNCHANGED <<regVars, mgrData, lastConfig, newConfig, wpc, expired, hung,
                   restVars>>

\* handleConfigChange after applyConfigChanges: w.lastConfig = newConfig
CommitConfig ==
    /\ wpc = "adds" /\ pc[Main] = "idle" /\ wtodo = {}
    /\ lastConfig' = newConfig
    /\ wpc' = "watch"
    /\ UNCHANGED <<regVars, mgrVars, newConfig, wtodo, issued, expired, hung,
                   restVars>>

\* the steps of the manager methods main and the watcher call
StartSteps ==
    \/ StartCheck(Main) \/ StartConnect(Main) \/ StartList(Main)
    \/ StartRegister(Main) \/ StartStore(Main) \/ Return(Main)

NextWatch ==
    \/ LoadNext \/ LoadDone
    \/ HandleConfigChange
    \/ ApplyStopNext \/ ApplyStopDone \/ ApplyAddNext \/ CommitConfig
    \/ StartSteps
    \/ StopLookup(Main) \/ StopUnregister(Main) \/ StopClose(Main)
    \/ ReloadGet(Main)

SpecWatch == InitMain /\ [][NextWatch]_vars

\* ---------------------------------------------------------------- shutdown
\* <-ctx.Done(); shutdownCtx := context.WithTimeout(..., 5*time.Second);
\* srv.Shutdown(shutdownCtx)
Signal ==
    /\ wpc = "watch" /\ pc[Main] = "idle"
    /\ wpc' = "signalled"
    /\ UNCHANGED <<regVars, mgrVars, lastConfig, newConfig, wtodo, issued,
                   expired, hung,
                   restVars>>

\* pm.StopAll(shutdownCtx)
MainStopAll ==
    /\ wpc = "signalled"
    /\ wpc' = "stopall"
    /\ CallManager("stopAll", "none", NoEntry)
    /\ UNCHANGED <<regVars, mgrData, lastConfig, newConfig, wtodo, issued,
                   expired, hung,
                   restVars>>

\* the five seconds of shutdownCtx pass
DeadlineExpires ==
    /\ wpc \in {"signalled", "stopall"}
    /\ ~expired
    /\ expired' = TRUE
    /\ UNCHANGED <<regVars, mgrVars, lastConfig, newConfig, wpc, wtodo,
                   issued, hung,
                   restVars>>

\* s.session.Close() that never returns: StopAll waits in it, and nothing
\* in StopAll looks at its ctx
CloseHangs(t) ==
    /\ pc[t] = "stopall_close"
    /\ \E s \in loc[t].todo :
        /\ hung' = hung \cup {s}
        /\ loc' = [loc EXCEPT ![t].todo = @ \ {s}]
    /\ Goto(t, "stopall_blocked")
    /\ UNCHANGED <<regVars, servers, sessions, call, regBy, stopped, ncalls,
                   lastConfig, newConfig, wpc, wtodo, issued, expired,
                   restVars>>

\* StopAll has returned: log "shutdown complete", main returns
MainExit ==
    /\ wpc = "stopall" /\ pc[Main] = "idle"
    /\ wpc' = "exited"
    /\ UNCHANGED <<regVars, mgrVars, lastConfig, newConfig, wtodo, issued,
                   expired, hung,
                   restVars>>

\* what main does once the signal has arrived, and the clock
ShutdownSteps ==
    \/ MainStopAll \/ DeadlineExpires
    \/ StopAllSnapshot(Main) \/ StopAllClose(Main) \/ CloseHangs(Main)
    \/ MainExit

NextShutdown ==
    \/ LoadNext \/ LoadDone \/ StartSteps
    \/ Signal
    \/ ShutdownSteps

SpecShutdown == InitMain /\ [][NextShutdown]_vars

\* main keeps running, and time passes
SpecShutdownFair ==
    SpecShutdown /\ WF_vars(LoadNext \/ LoadDone \/ StartSteps \/ ShutdownSteps)

\* ------------------------------------ the watcher's loop and its goroutines
\* what the config file can hold: a config for json.Unmarshal, or bytes it
\* rejects
File(c) == [parses |-> TRUE, cfg |-> c]
Garbage == [parses |-> FALSE, cfg |-> EmptyMap]

\* a config with the one server a / with the two servers a and b
OnlyA(e) == [n \in {"a"} |-> e]
Both(ea, eb) == [n \in Names |-> IF n = "a" THEN ea ELSE eb]

\* the configs written to the file: a alone, a with another timeout, a and
\* b, a and a disabled b, a and a b that does not validate
FileConfigs ==
    {OnlyA(Entry(FALSE, 0, "c")), OnlyA(Entry(FALSE, 1, "c")),
     Both(Entry(FALSE, 0, "c"), Entry(FALSE, 0, "c")),
     Both(Entry(FALSE, 0, "c"), Entry(TRUE, 0, "c")),
     Both(Entry(FALSE, 0, "c"), Entry(FALSE, 0, ""))}

FileContents == {File(c) : c \in FileConfigs} \cup {Garbage}

watchVars == <<newConfig, wpc, wtodo, issued, expired, hung>>

\* main after registry.New, NewManager and config.Load of a file that
\* parses; until watcher.New, lastConfig holds main's cfg
InitLoop ==
    /\ NewManager /\ RegistryNew /\ NoAdapter /\ NoSSE
    /\ NoStdio /\ NoTimed
    /\ file \in FileContents /\ file.parses
    /\ lastConfig = file.cfg
    /\ newConfig = EmptyMap
    /\ wpc = "load"
    /\ wtodo = IF Validate(lastConfig)
               THEN DOMAIN GetEnabledServers(lastConfig) ELSE {}
    /\ issued = <<>>
    /\ expired = FALSE
    /\ hung = {}
    /\ timers = <<>>
    /\ rec = [g \in Threads |-> NoRec]
    /\ nwrites = 0
    /\ gap = Debounce
    /\ pending = 0

\* StartServer called by LoadFromConfig returns to its loop
LoadReturn == wpc = "load" /\ Return(Main)

\* watcher.New loads the file again for w.lastConfig; main goes on without
\* a watcher when that fails, else Start adds the path and runs watchLoop
WatcherNew ==
    /\ wpc = "load" /\ pc[Main] = "idle" /\ wtodo = {}
    /\ IF file.parses
       THEN lastConfig' = file.cfg /\ wpc' = "watch"
       ELSE lastConfig' = lastConfig /\ wpc' = "nowatch"
    /\ UNCHANGED <<regVars, mgrVars, newConfig, wtodo, issued, expired, hung,
                   restVars>>

\* watchLoop on a Write or Create event arming a new timer and leaving the
\* previous one armed
ResetTimerWithoutStop(ts) == Append(ts, Debounce)

\* watchLoop on a Write or Create event: debounceTimer.Stop() if there is
\* one, then debounceTimer = time.AfterFunc(debounceDelay, ...)
ResetTimer(ts) == <<Debounce>>

\* somebody writes the config file; once the watcher runs, fsnotify
\* delivers the event and watchLoop handles it
WriteFile(f) ==
    /\ wpc \in {"load", "watch"}
    /\ nwrites < MaxWrites
    /\ nwrites' = nwrites + 1
    /\ file' = f
    /\ IF wpc = "watch"
       THEN /\ timers' = ResetTimer(timers)
            /\ gap' = 0
            /\ pending' = IF gap < Debounce THEN pending + 1 ELSE 1
       ELSE UNCHANGED <<timers, gap, pending>>
    /\ UNCHANGED <<regVars, mgrVars, lastConfig, watchVars, rec, adapterVars,
                   sseVars, stdioVars, timeVars>>

\* Stop (or the cancellation of the context of Start): watchLoop returns.
\* It leaves the debounce timer it may have armed as it is.
WatcherStop ==
    /\ wpc = "watch"
    /\ wpc' = "stopped"
    /\ UNCHANGED <<regVars, mgrVars, lastConfig, newConfig, wtodo, issued,
                   expired, hung, restVars>>

\* time passes; a timer that is due fires before more time passes
Tick ==
    /\ wpc \in {"watch", "stopped"}
    /\ timers # <<>> \/ gap < Debounce
    /\ \A i \in 1..Len(timers) : timers[i] > 0
    /\ timers' = [i \in 1..Len(timers) |-> timers[i] - 1]
    /\ gap' = IF gap < Debounce THEN gap + 1 ELSE gap
    /\ UNCHANGED <<regVars, mgrVars, lastConfig, watchVars, file, rec,
                   nwrites, pending, adapterVars,
                   sseVars, stdioVars, timeVars>>

\* s without its i-th element
RemoveAt(s, i) == SubSeq(s, 1, i - 1) \o SubSeq(s, i + 1, Len(s))

\* the goroutines that run neither handleConfigChange nor a manager call
Free == {g \in Threads : rec[g].pc = "off" /\ pc[g] = "idle"}

\* a due timer fires: the runtime runs func() { w.handleConfigChange(ctx) }
\* in a goroutine of its own
TimerFires ==
    /\ wpc \in {"watch", "stopped"}
    /\ Free # {}
    /\ \E i \in 1..Len(timers) :
        /\ timers[i] = 0
        /\ timers' = RemoveAt(timers, i)
    /\ LET g == CHOOSE f \in Free : \A h \in Free : f <= h
       IN  rec' = [rec EXCEPT ![g] = [NoRec EXCEPT !.pc = "load",
                                                   !.burst = pending]]
    /\ pending' = 0
    /\ UNCHANGED <<regVars, mgrVars, lastConfig, watchVars, file, nwrites,
                   gap, adapterVars,
                   sseVars, stdioVars, timeVars>>

\* handleConfigChange applying whatever config.Load returns
RecLoadNoValidate(g) ==
    /\ rec[g].pc = "load"
    /\ rec' = [rec EXCEPT ![g] =
                 IF ~file.parses
                 THEN [NoRec EXCEPT !.out = "loadError"]
                 ELSE [@ EXCEPT !.pc = "apply", !.new = file.cfg,
                                !.burst = 0]]
    /\ UNCHANGED <<regVars, mgrVars, lastConfig, watchVars, file, timers,
                   nwrites, gap, pending, adapterVars,
                   sseVars, stdioVars, timeVars>>

\* handleConfigChange: config.Load and Validate; either failure is logged
\* and ends the function
RecLoad(g) ==
    /\ rec[g].pc = "load"
    /\ rec' = [rec EXCEPT ![g] =
                 IF ~file.parses
                 THEN [NoRec EXCEPT !.out = "loadError"]
                 ELSE IF ~Validate(file.cfg)
                 THEN [NoRec EXCEPT !.out = "invalid"]
                 ELSE [@ EXCEPT !.pc = "apply", !.new = file.cfg,
                                !.burst = 0]]
    /\ UNCHANGED <<regVars, mgrVars, lastConfig, watchVars, file, timers,
                   nwrites, gap, pending, adapterVars,
                   sseVars, stdioVars, timeVars>>

\* the names that have a session in the manager's map that is not closed
Running == {n \in DOMAIN servers : ~sessions[servers[n]].closed}

\* applyConfigChanges: oldServers := w.lastConfig.GetEnabledServers()
RecApply(g) ==
    /\ rec[g].pc = "apply"
    /\ LET oldServers == GetEnabledServers(lastConfig)
       IN  rec' = [rec EXCEPT ![g].pc = "stops",
                              ![g].old = oldServers,
                              ![g].todo = DOMAIN oldServers,
                              ![g].pre = (Running = DOMAIN oldServers
                                            /\ DOMAIN servers = Running)]
    /\ UNCHANGED <<regVars, mgrVars, lastConfig, watchVars, file, timers,
                   nwrites, gap, pending, adapterVars,
                   sseVars, stdioVars, timeVars>>

\* a call of a manager method by the goroutine g
CallManagerAs(g, op, n, cfg) ==
    /\ call' = [call EXCEPT ![g] = [op |-> op, name |-> n, argsOK |-> TRUE,
                                    cfg |-> cfg]]
    /\ pc' = [pc EXCEPT ![g] = FirstLabel(op)]

loopRest == <<lastConfig, watchVars, file, timers, nwrites, gap, pending,
              adapterVars>>

\* applyConfigChanges, first loop, in the goroutine g
RecStopNext(g) ==
    /\ rec[g].pc = "stops" /\ pc[g] = "idle"
    /\ \E n \in rec[g].todo :
        /\ rec' = [rec EXCEPT ![g].todo = @ \ {n}]
        /\ IF n \notin DOMAIN GetEnabledServers(rec[g].new)
           THEN CallManagerAs(g, "stop", n, NoEntry)
           ELSE UNCHANGED <<call, pc,
                   sseVars, stdioVars, timeVars>>
    /\ UNCHANGED <<regVars, mgrData, loopRest,
                   sseVars, stdioVars, timeVars>>

\* the first loop ends, the second begins
RecStopDone(g) ==
    /\ rec[g].pc = "stops" /\ pc[g] = "idle" /\ rec[g].todo = {}
    /\ rec' = [rec EXCEPT ![g].pc = "adds",
                          ![g].todo = DOMAIN GetEnabledServers(rec[g].new)]
    /\ UNCHANGED <<regVars, mgrVars, loopRest, sseVars, stdioVars, timeVars>>

\* the second loop returning at the first manager call that fails
RecAddNextStopsAtError(g) ==
    /\ rec[g].pc = "adds" /\ pc[g] = "idle"
    /\ \E n \in rec[g].todo :
        LET newServers == GetEnabledServers(rec[g].new)
            failed == \E i \in 1..Len(rec[g].log) : rec[g].log[i][3] # "ok"
        IN  /\ rec' = [rec EXCEPT ![g].todo = IF failed THEN {} ELSE @ \ {n}]
            /\ IF failed
               THEN UNCHANGED <<call, pc,
                   sseVars, stdioVars, timeVars>>
               ELSE IF n \notin DOMAIN rec[g].old
               THEN CallManagerAs(g, "start", n, newServers[n])
               ELSE IF ~configEqual(rec[g].old[n], newServers[n])
               THEN CallManagerAs(g, "reload", n, newServers[n])
               ELSE UNCHANGED <<call, pc,
                   sseVars, stdioVars, timeVars>>
    /\ UNCHANGED <<regVars, mgrData, loopRest,
                   sseVars, stdioVars, timeVars>>

\* applyConfigChanges, second loop, in the goroutine g
RecAddNext(g) ==
    /\ rec[g].pc = "adds" /\ pc[g] = "idle"
    /\ \E n \in rec[g].todo :
        LET newServers == GetEnabledServers(rec[g].new)
        IN  /\ rec' = [rec EXCEPT ![g].todo = @ \ {n}]
            /\ IF n \notin DOMAIN rec[g].old
               THEN CallManagerAs(g, "start", n, newServers[n])
               ELSE IF ~configEqual(rec[g].old[n], newServers[n])
               THEN CallManagerAs(g, "reload", n, newServers[n])
               ELSE UNCHANGED <<call, pc,
                   sseVars, stdioVars, timeVars>>
    /\ UNCHANGED <<regVars, mgrData, loopRest,
                   sseVars, stdioVars, timeVars>>

\* the manager call returns to applyConfigChanges, which logs an error
RecReturn(g) ==
    /\ rec[g].pc \in {"stops", "adds"} /\ pc[g] = "done"
    /\ rec' = [rec EXCEPT ![g].log =
                 Append(@, <<call[g].op, call[g].name, res[g]>>)]
    /\ pc' = [pc EXCEPT ![g] = "idle"]
    /\ call' = [call EXCEPT ![g] = NoCall]
    /\ loc' = [loc EXCEPT ![g] = NoLoc]
    /\ res' = [res EXCEPT ![g] = "none"]
    /\ UNCHANGED <<regVars, servers, sessions, regBy, stopped, ncalls,
                   loopRest,
                   sseVars, stdioVars, timeVars>>

\* applyConfigChanges has returned
RecApplied(g) ==
    /\ rec[g].pc = "adds" /\ pc[g] = "idle" /\ rec[g].todo = {}
    /\ rec' = [rec EXCEPT ![g].pc = "commit"]
    /\ UNCHANGED <<regVars, mgrVars, loopRest, sseVars, stdioVars, timeVars>>

\* handleConfigChange: w.lastConfig = newConfig, and the goroutine ends
RecCommit(g) ==
    /\ rec[g].pc = "commit"
    /\ lastConfig' = rec[g].new
    /\ rec' = [rec EXCEPT ![g] = [NoRec EXCEPT !.out = "applied"]]
    /\ UNCHANGED <<regVars, mgrVars, watchVars, file, timers, nwrites, gap,
                   pending, adapterVars,
                   sseVars, stdioVars, timeVars>>

\* the steps of the manager methods the reconciler calls
ManagerStep(g) ==
    \/ StartCheck(g) \/ StartConnect(g) \/ StartList(g)
    \/ StartRegister(g) \/ StartStore(g)
    \/ StopLookup(g) \/ StopUnregister(g) \/ StopClose(g)
    \/ ReloadGet(g)

NextLoop ==
    \/ LoadNext \/ LoadReturn \/ WatcherNew
    \/ \E f \in FileContents : WriteFile(f)
    \/ WatcherStop
    \/ Tick
    \/ TimerFires
    \/ \E g \in Threads :
        \/ RecLoad(g) \/ RecApply(g)
        \/ RecStopNext(g) \/ RecStopDone(g)
        \/ RecAddNext(g) \/ RecReturn(g)
        \/ RecApplied(g) \/ RecCommit(g)
        \/ ManagerStep(g)

SpecLoop == InitLoop /\ [][NextLoop]_vars

\* ------------------------------------------------- the downstream adapter
\* Names are sequences of characters here, so that the handler's search for
\* the separator is a computation on the name.
Colon == ":"

\* t.PluginID + ":" + t.Name
Namespaced(pluginID, name) == pluginID \o <<Colon>> \o name

\* strings.Index(name, ":"), counted from 1; 0 when there is none
IndexOfColon(name) ==
    IF \E i \in 1..Len(name) : name[i] = Colon
    THEN CHOOSE i \in 1..Len(name) :
            name[i] = Colon /\ \A j \in 1..(i - 1) : name[j] # Colon
    ELSE 0

\* the servers of the adapter's config and the tools their peers list
AdapterOwners == {<<"a">>, <<"a", ":", "b">>}
AdapterCatalog ==
    [n \in AdapterOwners |->
        IF n = <<"a">> THEN {<<"x">>, <<"b", ":", "x">>} ELSE {<<"x">>}]

\* the names of a snapshot as the adapter publishes them
Desired(snapshot) == {Namespaced(t.PluginID, t.Name) : t \in snapshot}

\* one iteration of for snapshot := range ch: AddTool for the names not in
\* registered, then RemoveTools for the registered names not desired
Sync(reg, snapshot) ==
    LET added == reg \cup Desired(snapshot)
        toRemove == {name \in added : name \notin Desired(snapshot)}
    IN  added \ toRemove

\* the goroutine of server.New receives a snapshot and brings the tools of
\* the SDK server in line with it
AdapterSync(ch) ==
    /\ ch \in DOMAIN subs /\ subs[ch] # <<>>
    /\ LET snapshot == Head(subs[ch]) IN
        /\ subs' = [subs EXCEPT ![ch] = Tail(@)]
        /\ got' = [got EXCEPT ![ch] = Append(@, snapshot)]
        /\ registered' = Sync(registered, snapshot)
        /\ published' = (published \cup (Desired(snapshot) \ registered))
                            \ (registered \ Desired(snapshot))
    /\ UNCHANGED <<tools, closedCh, hist, mgrVars, lastConfig, watchVars,
                   loopVars, forwarded,
                   sseVars, stdioVars, timeVars>>

\* the handler of a published tool: what it passes to pm.Execute for the
\* name of the request; without a separator in the name it takes the one
\* server of ListServers, and returns an error when there is not exactly one
Forward(name) ==
    LET idx == IndexOfColon(name) IN
    IF idx > 0
    THEN [err |-> FALSE, pluginID |-> SubSeq(name, 1, idx - 1),
          toolName |-> SubSeq(name, idx + 1, Len(name))]
    ELSE IF Cardinality(DOMAIN servers) = 1
    THEN [err |-> FALSE, pluginID |-> CHOOSE n \in DOMAIN servers : TRUE,
          toolName |-> name]
    ELSE [err |-> TRUE, pluginID |-> <<>>, toolName |-> <<>>]

\* a downstream client calls a published tool: the SDK server runs the
\* handler added for that name with req.Params.Name = the name; t is a tool
\* of the last snapshot published under that name
DownstreamCall(ch) ==
    /\ Len(forwarded) < MaxDownstreamCalls
    /\ ch \in DOMAIN got /\ got[ch] # <<>>
    /\ \E t \in got[ch][Len(got[ch])] :
        LET name == Namespaced(t.PluginID, t.Name) IN
        /\ name \in published
        /\ forwarded' = Append(forwarded,
                               [name |-> name, owner |-> t.PluginID,
                                tool |-> t.Name, to |-> Forward(name)])
    /\ UNCHANGED <<regVars, mgrVars, lastConfig, watchVars, loopVars,
                   registered, published,
                   sseVars, stdioVars, timeVars>>

NextAdapter ==
    \/ RegSubscribe
    \/ \E n \in AdapterOwners : RegRegister(n, AdapterCatalog[n])
    \/ \E n \in AdapterOwners : RegUnregister(n)
    \/ \E ch \in Chans : AdapterSync(ch)
    \/ \E ch \in Chans : DownstreamCall(ch)

SpecAdapter == Init /\ [][NextAdapter]_vars

\* ------------------------------------------- calls on a loaded manager
\* main has loaded a config that enables every server of Names; once
\* LoadFromConfig has returned, the callers of the manager's API overlap
\* freely.
InitLoaded ==
    /\ InitMain
    /\ lastConfig = [n \in Names |-> Entry(FALSE, 0, "c")]

\* a call of the manager's API, which main serves after the load
ApiInvoke(t) ==
    /\ wpc = "watch"
    /\ Invoke(t, NThreads)

NextLoaded ==
    \/ LoadNext
    \/ LoadDone
    \/ \E t \in Threads : ApiInvoke(t)
    \/ \E t \in Threads : Step(t)

SpecLoaded == InitLoaded /\ [][NextLoaded]_vars

\* ------------------------------------------- event-stream (SSE) transport
\* One SSETransport, its reader goroutine (readSSEEvents) and MaxRequests
\* goroutines that each either take an id from NextRequestID and call
\* SendRequest with it, or call SendNotification.  The peer answers the
\* requests it has received in any order.

Callers == 1..MaxRequests

\* the id of a JSON-RPC message as json.Unmarshal leaves it in an
\* interface{} : a number, or nil when the message carries none
WireID(n) == [kind |-> "number", val |-> n]
NoID == [kind |-> "null", val |-> 0]

\* int(id.(float64)) : the key of the responses map
KeyOf(id) == id.val

\* the id the message of caller c carries: a JSONRPCNotification has none
ReqID(c) == IF sreq[c].kind = "notify" THEN NoID ELSE WireID(sreq[c].id)

\* the s-th envelope of the peer, with the id of request i; its result
\* tells the envelopes apart
Reply(i, s) == [ID |-> WireID(i), Result |-> s]

\* a message of the peer without an id
Notification == [ID |-> NoID, Result |-> 0]

\* no goroutine has panicked: the process runs
Alive == panicked = ""

\* the transport after NewSSETransport and a Start that connected
InitSSE ==
    /\ NewManager /\ RegistryNew /\ NoMain /\ NoLoop /\ NoAdapter
    /\ NoStdio /\ NoTimed
    /\ connected = TRUE
    /\ requestID = 0
    /\ responses = EmptyMap
    /\ slot = [c \in Callers |-> <<>>]
    /\ sreq = [c \in Callers |-> NoRequest]
    /\ posted = {}
    /\ stream = <<>>
    /\ emitted = <<>>
    /\ sseClosed = FALSE
    /\ panicked = ""

sseRest == <<regVars, mgrVars, lastConfig, watchVars, loopVars, adapterVars,
             stdioVars, timeVars>>

\* NextRequestID, then mcp.NewRequest with that id.  The calling
\* goroutines are alike: they are numbered in the order in which they
\* begin.
SSENextRequestID(c) ==
    /\ Alive
    /\ sreq[c].pc = "idle"
    /\ \A d \in Callers : d < c => sreq[d].pc # "idle"
    /\ requestID' = requestID + 1
    /\ sreq' = [sreq EXCEPT ![c] = [@ EXCEPT !.pc = "check",
                                             !.id = requestID + 1]]
    /\ UNCHANGED <<sseRest, connected, responses, slot, posted, stream,
                   emitted, sseClosed, panicked>>

\* mcp.NewNotification, then SendNotification, which is SendRequest with
\* the notification
SSESendNotification(c) ==
    /\ Alive
    /\ sreq[c].pc = "idle"
    /\ \A d \in Callers : d < c => sreq[d].pc # "idle"
    /\ sreq' = [sreq EXCEPT ![c] = [@ EXCEPT !.pc = "check",
                                             !.kind = "notify"]]
    /\ UNCHANGED <<sseRest, connected, requestID, responses, slot, posted,
                   stream, emitted, sseClosed, panicked>>

\* SendRequest: the connected check under t.mu
SSECheckConnected(c) ==
    /\ Alive
    /\ sreq[c].pc = "check"
    /\ sreq' = [sreq EXCEPT ![c] =
                   IF connected
                   THEN [@ EXCEPT !.pc = "register"]
                   ELSE [@ EXCEPT !.pc = "done", !.err = "notConnected"]]
    /\ UNCHANGED <<sseRest, connected, requestID, responses, slot, posted,
                   stream, emitted, sseClosed, panicked>>

\* SendRequest: make respCh and store it under the request's id.  The
\* type assertion reqMsg.ID.(float64) panics on a message without an id.
SSERegister(c) ==
    /\ Alive
    /\ sreq[c].pc = "register"
    /\ IF ReqID(c) = NoID
       THEN /\ panicked' = "nilID"
            /\ sreq' = [sreq EXCEPT ![c] = [@ EXCEPT !.pc = "panic"]]
            /\ UNCHANGED <<responses, slot>>
       ELSE /\ responses' = MapPut(responses, KeyOf(ReqID(c)), c)
            /\ slot' = [slot EXCEPT ![c] = <<>>]
            /\ sreq' = [sreq EXCEPT ![c] = [@ EXCEPT !.pc = "post"]]
            /\ UNCHANGED panicked
    /\ UNCHANGED <<sseRest, connected, requestID, posted, stream, emitted,
                   sseClosed>>

\* a mutation of SSEPost: the exit on a failed POST skips the deferred
\* delete
SSEPostLeavesEntry(c) ==
    /\ Alive
    /\ sreq[c].pc = "post"
    /\ \E ok \in BOOLEAN, delivered \in BOOLEAN :
        /\ ok => delivered
        /\ posted' = IF delivered THEN posted \cup {sreq[c].id} ELSE posted
        /\ sreq' = [sreq EXCEPT ![c] =
                       IF ok
                       THEN [@ EXCEPT !.pc = "wait"]
                       ELSE [@ EXCEPT !.pc = "done", !.err = "post"]]
    /\ UNCHANGED <<sseRest, connected, requestID, responses, slot, stream,
                   emitted, sseClosed, panicked>>

\* SendRequest: the POST to /messages.  It fails with a transport error or
\* a status other than 200 and 202; the peer may have received a request
\* whose POST failed.
SSEPost(c) ==
    /\ Alive
    /\ sreq[c].pc = "post"
    /\ \E ok \in BOOLEAN, delivered \in BOOLEAN :
        /\ ok => delivered
        /\ posted' = IF delivered THEN posted \cup {sreq[c].id} ELSE posted
        /\ sreq' = [sreq EXCEPT ![c] =
                       IF ok
                       THEN [@ EXCEPT !.pc = "wait"]
                       ELSE [@ EXCEPT !.pc = "cleanup", !.err = "post"]]
    /\ UNCHANGED <<sseRest, connected, requestID, responses, slot, stream,
                   emitted, sseClosed, panicked>>

\* SendRequest: the select receives from respCh
SSEReceive(c) ==
    /\ Alive
    /\ sreq[c].pc = "wait"
    /\ slot[c] # <<>>
    /\ sreq' = [sreq EXCEPT ![c] = [@ EXCEPT !.pc = "cleanup",
                                             !.result = Head(slot[c])]]
    /\ slot' = [slot EXCEPT ![c] = Tail(@)]
    /\ UNCHANGED <<sseRest, connected, requestID, responses, posted, stream,
                   emitted, sseClosed, panicked>>

\* SendRequest: the select ends on ctx.Done or on time.After(t.timeout)
SSETimeout(c) ==
    /\ Alive
    /\ sreq[c].pc = "wait"
    /\ sreq' = [sreq EXCEPT ![c] = [@ EXCEPT !.pc = "cleanup",
                                             !.err = "timeout"]]
    /\ UNCHANGED <<sseRest, connected, requestID, responses, slot, posted,
                   stream, emitted, sseClosed, panicked>>

\* SendRequest: the deferred function deletes the map entry under
\* responseMu
SSECleanup(c) ==
    /\ Alive
    /\ sreq[c].pc = "cleanup"
    /\ responses' = MapDelete(responses, KeyOf(ReqID(c)))
    /\ sreq' = [sreq EXCEPT ![c] = [@ EXCEPT !.pc = "closing"]]
    /\ UNCHANGED <<sseRest, connected, requestID, slot, posted, stream,
                   emitted, sseClosed, panicked>>

\* SendRequest: the deferred function closes respCh, and the call returns
SSECloseSlot(c) ==
    /\ Alive
    /\ sreq[c].pc = "closing"
    /\ sreq' = [sreq EXCEPT ![c] = [@ EXCEPT !.pc = "done"]]
    /\ UNCHANGED <<sseRest, connected, requestID, responses, slot, posted,
                   stream, emitted, sseClosed, panicked>>

\* the peer answers a request it has received and not answered yet
PeerReply(i) ==
    /\ Alive
    /\ connected
    /\ i \in posted
    /\ \A j \in 1..Len(emitted) : ~(emitted[j].id = i /\ ~emitted[j].extra)
    /\ stream' = Append(stream, Reply(i, Len(emitted) + 1))
    /\ emitted' = Append(emitted, [id |-> i, extra |-> FALSE])
    /\ UNCHANGED <<sseRest, connected, requestID, responses, slot, sreq,
                   posted, sseClosed, panicked>>

\* the peer writes one more envelope with the id i: a second reply to a
\* request, or a reply to a request nobody has made or that has returned
PeerExtraReply(i) ==
    /\ Alive
    /\ connected
    /\ Cardinality({j \in 1..Len(emitted) : emitted[j].extra})
          < MaxExtraReplies
    /\ stream' = Append(stream, Reply(i, Len(emitted) + 1))
    /\ emitted' = Append(emitted, [id |-> i, extra |-> TRUE])
    /\ UNCHANGED <<sseRest, connected, requestID, responses, slot, sreq,
                   posted, sseClosed, panicked>>

\* the peer writes a message without an id
PeerNotify ==
    /\ Alive
    /\ connected
    /\ \A j \in 1..Len(stream) : stream[j] # Notification
    /\ stream' = Append(stream, Notification)
    /\ UNCHANGED <<sseRest, connected, requestID, responses, slot, sreq,
                   posted, emitted, sseClosed, panicked>>

\* a mutation of Route: hand the reply to any channel of the map
RouteToAnyChannel(m, key) == {m[k] : k \in DOMAIN m}

\* handleSSEMessage: the channel stored under the key, if there is one
Route(m, key) == IF key \in DOMAIN m THEN {m[key]} ELSE {}

\* the non-blocking send of handleSSEMessage to the channel of caller ch:
\* it panics on a closed channel and drops the result when the one slot
\* of the channel is taken
SendTo(ch, result) ==
    IF sreq[ch].pc = "done"
    THEN /\ panicked' = "sendOnClosed"
         /\ slot' = slot
    ELSE /\ slot' = IF Len(slot[ch]) < 1
                    THEN [slot EXCEPT ![ch] = Append(@, result)]
                    ELSE slot
         /\ UNCHANGED panicked

\* a mutation of HandleSSEMessage: an envelope whose id has no entry goes
\* to a channel that has one
HandleSSEMessageUnknownToAny ==
    /\ Alive
    /\ stream # <<>>
    /\ stream' = Tail(stream)
    /\ LET msg == Head(stream)
           chs == IF msg.ID = NoID THEN {}
                  ELSE IF Route(responses, KeyOf(msg.ID)) # {}
                       THEN Route(responses, KeyOf(msg.ID))
                       ELSE RouteToAnyChannel(responses, KeyOf(msg.ID))
       IN  \/ /\ chs = {}
              /\ UNCHANGED <<slot, panicked>>
           \/ \E ch \in chs : SendTo(ch, msg.Result)
    /\ UNCHANGED <<sseRest, connected, requestID, responses, sreq, posted,
                   emitted, sseClosed>>

\* readSSEEvents reads one event and handleSSEMessage routes it: a message
\* with an id goes to the channel stored under it
HandleSSEMessage ==
    /\ Alive
    /\ stream # <<>>
    /\ stream' = Tail(stream)
    /\ LET msg == Head(stream)
           chs == IF msg.ID = NoID THEN {}
                  ELSE Route(responses, KeyOf(msg.ID))
       IN  \/ /\ chs = {}
              /\ UNCHANGED <<slot, panicked>>
           \/ \E ch \in chs : SendTo(ch, msg.Result)
    /\ UNCHANGED <<sseRest, connected, requestID, responses, sreq, posted,
                   emitted, sseClosed>>

\* the peer ends the stream: readSSEEvents has read every event, its
\* scanner stops and the deferred function clears connected
ReadEnds ==
    /\ Alive
    /\ connected
    /\ stream = <<>>
    /\ connected' = FALSE
    /\ UNCHANGED <<sseRest, requestID, responses, slot, sreq, posted, stream,
                   emitted, sseClosed, panicked>>

\* Close: cancel t.ctx, close the body of the event stream and clear
\* connected.  The reader may still handle the events its scanner has
\* buffered; the rest of the stream is lost.  Nothing here touches the
\* responses map or the channels of the waiting requests.
SSEClose ==
    /\ Alive
    /\ connected' = FALSE
    /\ sseClosed' = TRUE
    /\ \E k \in 0..Len(stream) : stream' = SubSeq(stream, 1, k)
    /\ UNCHANGED <<sseRest, requestID, responses, slot, sreq, posted,
                   emitted, panicked>>

NextSSE ==
    \/ \E c \in Callers :
        \/ SSENextRequestID(c) \/ SSESendNotification(c)
        \/ SSECheckConnected(c)
        \/ SSERegister(c) \/ SSEPost(c)
        \/ SSEReceive(c) \/ SSETimeout(c)
        \/ SSECleanup(c) \/ SSECloseSlot(c)
    \/ \E i \in 1..MaxRequests : PeerReply(i)
    \/ \E i \in 1..MaxRequests : PeerExtraReply(i)
    \/ PeerNotify
    \/ HandleSSEMessage
    \/ ReadEnds
    \/ SSEClose

SpecSSE == InitSSE /\ [][NextSSE]_vars

\* ------------------------------------------------------- stdio transports
\* One StdioTransport (DockerTransport has the same Start, SendRequest and
\* Close, with a container for the child), the children its Start calls
\* launch, the goroutine each Start leaves in cmd.Wait, and MaxStdioCalls
\* goroutines that each take an id from NextRequestID and call SendRequest.

StdioCallers == 1..MaxStdioCalls

\* the child Start has just launched: its pipes are open, it has received
\* and written nothing, and the monitor goroutine is in cmd.Wait
NewChild ==
    [alive |-> TRUE, stdin |-> TRUE, eof |-> FALSE, out |-> <<>>,
     recv |-> {}, replied |-> {}, watcher |-> "wait", closed |-> FALSE]

\* the child t.cmd, t.stdin and t.reader belong to
Cur == Len(children)

stdioRest == <<regVars, mgrVars, lastConfig, watchVars, loopVars,
               adapterVars, sseVars, timeVars>>

\* the transport after NewStdioTransport
InitStdio ==
    /\ NewManager /\ RegistryNew /\ NoMain /\ NoLoop /\ NoAdapter /\ NoSSE
    /\ NoStdio /\ NoTimed

\* Start: refuse when connected, else launch a child, set connected, reset
\* the request counter and leave a goroutine in cmd.Wait
StdioStart ==
    /\ ~sconn
    /\ Len(children) < MaxOpens
    /\ children' = Append(children, NewChild)
    /\ sconn' = TRUE
    /\ srequestID' = 0
    /\ UNCHANGED <<stdioRest, streq>>

\* NextRequestID, then mcp.NewRequest with that id.  The calling
\* goroutines are alike: they are numbered in the order in which they
\* begin.
StdioNextRequestID(c) ==
    /\ Cur >= 1
    /\ streq[c].pc = "idle"
    /\ \A d \in StdioCallers : d < c => streq[d].pc # "idle"
    /\ srequestID' = srequestID + 1
    /\ streq' = [streq EXCEPT ![c] = [@ EXCEPT !.pc = "check",
                                               !.id = srequestID + 1]]
    /\ UNCHANGED <<stdioRest, sconn, children>>

\* SendRequest: the connected check under t.mu
StdioCheckConnected(c) ==
    /\ streq[c].pc = "check"
    /\ streq' = [streq EXCEPT ![c] =
                    IF sconn
                    THEN [@ EXCEPT !.pc = "write"]
                    ELSE [@ EXCEPT !.pc = "done", !.err = "notConnected"]]
    /\ UNCHANGED <<stdioRest, sconn, srequestID, children>>

\* SendRequest: write the request to t.stdin under t.mu, then start the
\* goroutine that reads one line from t.reader.  The write fails when the
\* pipe is closed or the child is gone.
StdioWrite(c) ==
    /\ streq[c].pc = "write"
    /\ IF children[Cur].stdin /\ children[Cur].alive
       THEN /\ children' = [children EXCEPT
                              ![Cur].recv = @ \cup {streq[c].id}]
            /\ streq' = [streq EXCEPT ![c] =
                            [@ EXCEPT !.pc = "wait", !.rdr = "reading",
                                      !.gen = Cur]]
       ELSE /\ streq' = [streq EXCEPT ![c] =
                            [@ EXCEPT !.pc = "done", !.err = "write"]]
            /\ UNCHANGED children
    /\ UNCHANGED <<stdioRest, sconn, srequestID>>

\* the goroutine of call c: t.reader.ReadBytes returns the next line of
\* the child's stdout, whatever it is, or an error at the end of the
\* stream.  Goroutines of several calls read the same reader; each line
\* goes to one of them.
StdioRead(c) ==
    /\ streq[c].rdr = "reading"
    /\ LET g == streq[c].gen
       IN  IF children[g].out # <<>>
           THEN /\ children' = [children EXCEPT ![g].out = Tail(@)]
                /\ streq' = [streq EXCEPT ![c] =
                                [@ EXCEPT !.rdr = "got",
                                          !.got = Head(children[g].out)]]
           ELSE /\ children[g].eof
                /\ streq' = [streq EXCEPT ![c] = [@ EXCEPT !.rdr = "err"]]
                /\ UNCHANGED children
    /\ UNCHANGED <<stdioRest, sconn, srequestID>>

\* SendRequest: the select receives from responseChan
StdioReceive(c) ==
    /\ streq[c].pc = "wait"
    /\ streq[c].rdr = "got"
    /\ streq' = [streq EXCEPT ![c] =
                    [@ EXCEPT !.pc = "done", !.result = streq[c].got]]
    /\ UNCHANGED <<stdioRest, sconn, srequestID, children>>

\* SendRequest: the select receives from errorChan
StdioReadError(c) ==
    /\ streq[c].pc = "wait"
    /\ streq[c].rdr = "err"
    /\ streq' = [streq EXCEPT ![c] = [@ EXCEPT !.pc = "done",
                                               !.err = "read"]]
    /\ UNCHANGED <<stdioRest, sconn, srequestID, children>>

\* SendRequest: the select ends on time.After(timeout) or ctx.Done; the
\* goroutine of the call stays in ReadBytes
StdioTimeout(c) ==
    /\ streq[c].pc = "wait"
    /\ streq' = [streq EXCEPT ![c] = [@ EXCEPT !.pc = "done",
                                               !.err = "timeout"]]
    /\ UNCHANGED <<stdioRest, sconn, srequestID, children>>

\* the child answers a request it has received
ChildReply(g, i) ==
    /\ g \in 1..Len(children)
    /\ children[g].alive /\ ~children[g].eof
    /\ i \in children[g].recv \ children[g].replied
    /\ children' = [children EXCEPT
                      ![g].out = Append(@, Line("reply", i)),
                      ![g].replied = @ \cup {i}]
    /\ UNCHANGED <<stdioRest, sconn, srequestID, streq>>

\* the child writes a notification
ChildNotify(g) ==
    /\ g \in 1..Len(children)
    /\ children[g].alive /\ ~children[g].eof
    /\ \A j \in 1..Len(children[g].out) : children[g].out[j].kind # "note"
    /\ children' = [children EXCEPT ![g].out = Append(@, Line("note", 0))]
    /\ UNCHANGED <<stdioRest, sconn, srequestID, streq>>

\* the child closes its stdout and goes on running
ChildClosesStdout(g) ==
    /\ g \in 1..Len(children)
    /\ children[g].alive /\ ~children[g].eof
    /\ children' = [children EXCEPT ![g].eof = TRUE]
    /\ UNCHANGED <<stdioRest, sconn, srequestID, streq>>

\* the child exits, by itself or killed
ChildExits(g) ==
    /\ g \in 1..Len(children)
    /\ children[g].alive
    /\ children' = [children EXCEPT ![g].alive = FALSE, ![g].eof = TRUE,
                                    ![g].stdin = FALSE]
    /\ UNCHANGED <<stdioRest, sconn, srequestID, streq>>

\* the monitor goroutine of Start: cmd.Wait returns
MonitorWaitReturns(g) ==
    /\ g \in 1..Len(children)
    /\ ~children[g].alive
    /\ children[g].watcher = "wait"
    /\ children' = [children EXCEPT ![g].watcher = "mark"]
    /\ UNCHANGED <<stdioRest, sconn, srequestID, streq>>

\* the monitor goroutine of Start: lock t.mu, clear connected
MonitorMarks(g) ==
    /\ g \in 1..Len(children)
    /\ children[g].watcher = "mark"
    /\ sconn' = FALSE
    /\ children' = [children EXCEPT ![g].watcher = "done"]
    /\ UNCHANGED <<stdioRest, srequestID, streq>>

\* Close, all under t.mu: nothing when not connected; else clear
\* connected, close stdin and wait for the child, which exits within the
\* grace period or is sent a kill when it ends
StdioClose ==
    /\ Cur >= 1
    /\ IF ~sconn
       THEN UNCHANGED <<sconn, children>>
       ELSE /\ sconn' = FALSE
            /\ \E exited \in BOOLEAN :
                 children' = [children EXCEPT
                    ![Cur].stdin = FALSE,
                    ![Cur].closed = TRUE,
                    ![Cur].alive = @ /\ ~exited,
                    ![Cur].eof = @ \/ exited]
    /\ UNCHANGED <<stdioRest, srequestID, streq>>

NextStdio ==
    \/ StdioStart
    \/ \E c \in StdioCallers :
        \/ StdioNextRequestID(c) \/ StdioCheckConnected(c)
        \/ StdioWrite(c) \/ StdioRead(c)
        \/ StdioReceive(c) \/ StdioReadError(c)
        \/ StdioTimeout(c)
    \/ \E g \in 1..MaxOpens :
        \/ \E i \in 1..MaxStdioCalls : ChildReply(g, i)
        \/ ChildNotify(g) \/ ChildClosesStdout(g) \/ ChildExits(g)
        \/ MonitorWaitReturns(g) \/ MonitorMarks(g)
    \/ StdioClose

SpecStdio == InitStdio /\ [][NextStdio]_vars

\* --------------------------------------------------------- request timers
\* One SendRequest on a transport whose peer is slow, with the clock that
\* the timers of the call run on.  The transport's default timeout and the
\* deadline of the caller's context are inputs; 0 stands for a context
\* without a deadline.

Transports == {"stdio", "docker", "sse", "http"}
Timeouts == 1..MaxTimeout
Deadlines == 0..(MaxTimeout + 1)

Min(a, b) == IF a < b THEN a ELSE b

\* the duration SendRequest hands to time.After (ticks after the send);
\* 0 when it arms none.  stdio and docker: t.timeout, replaced by
\* time.Until(deadline) when the context has a deadline.  sse: t.timeout.
\* http: none, the http.Client carries Timeout: t.timeout.
TimerOf(transport, default, deadline, now) ==
    CASE transport \in {"stdio", "docker"} ->
             IF deadline # 0 THEN deadline - now ELSE default
      [] transport = "sse" -> default
      [] transport = "http" -> default

\* a request that has not been sent: the caller's deadline is not before
\* the send
InitTimed ==
    /\ NewManager /\ RegistryNew /\ NoMain /\ NoLoop /\ NoAdapter /\ NoSSE
    /\ NoStdio
    /\ tclock = 0
    /\ \E tr \in Transports, d \in Timeouts, dl \in Deadlines :
         treq = [pc |-> "start", transport |-> tr, default |-> d,
                 deadline |-> dl, sent |-> 0, timer |-> 0, err |-> "",
                 ended |-> 0]

timedRest == <<regVars, mgrVars, lastConfig, watchVars, loopVars,
               adapterVars, sseVars, stdioVars>>

\* SendRequest up to its wait: the request is written (or POSTed) and the
\* timer is armed
TimedSend ==
    /\ treq.pc = "start"
    /\ treq.deadline # 0 => tclock <= treq.deadline
    /\ treq' = [treq EXCEPT
                  !.pc = "wait", !.sent = tclock,
                  !.timer = tclock + TimerOf(treq.transport, treq.default,
                                             treq.deadline, tclock)]
    /\ UNCHANGED <<timedRest, tclock>>

\* the timer of the call, or the deadline of its context, is due
Due ==
    /\ treq.pc = "wait"
    /\ \/ tclock >= treq.timer
       \/ treq.deadline # 0 /\ tclock >= treq.deadline

\* time passes; a timer that is due fires before the clock moves on
TimedTick ==
    /\ tclock < MaxTimeout + 2
    /\ treq.pc # "done"
    /\ ~Due
    /\ tclock' = tclock + 1
    /\ UNCHANGED <<timedRest, treq>>

\* the select ends on time.After (http: the client's Timeout expires)
TimedTimeout ==
    /\ treq.pc = "wait"
    /\ tclock >= treq.timer
    /\ treq' = [treq EXCEPT !.pc = "done", !.err = "timeout",
                            !.ended = tclock]
    /\ UNCHANGED <<timedRest, tclock>>

\* the select ends on ctx.Done (http: the request's context expires)
TimedDeadline ==
    /\ treq.pc = "wait"
    /\ treq.deadline # 0 /\ tclock >= treq.deadline
    /\ treq' = [treq EXCEPT !.pc = "done", !.err = "deadline",
                            !.ended = tclock]
    /\ UNCHANGED <<timedRest, tclock>>

\* the reply arrives and the call returns it
TimedReply ==
    /\ treq.pc = "wait"
    /\ treq' = [treq EXCEPT !.pc = "done", !.ended = tclock]
    /\ UNCHANGED <<timedRest, tclock>>

NextTimed ==
    \/ TimedSend \/ TimedTick \/ TimedTimeout \/ TimedDeadline
    \/ TimedReply

SpecTimed == InitTimed /\ [][NextTimed]_vars

TypeOK ==
    /\ DOMAIN servers \subseteq Names
    /\ \A n \in DOMAIN servers : servers[n] \in SessIds
    /\ Len(sessions) <= MaxSessions
    /\ \A id \in DOMAIN tools : tools[id].ID = id
    /\ DOMAIN regBy = DOMAIN tools

\* ------------------------------------------------------- shared vocabulary
Live(s) == ~sessions[s].closed

Held == {servers[n] : n \in DOMAIN servers}

Quiescent == \A t \in Threads : pc[t] \in {"idle", "done"}

OwnedBy(n) == {id \in DOMAIN tools : tools[id].PluginID = n}

\* thread t takes a step in which its call finishes
Finishes(t) == pc[t] # "done" /\ pc'[t] = "done"

\* ------------------------------------------------------------------ claims

\* C1: in every reachable state every tool in the registry has an owner for
\* which a live (not yet closed) session exists; in particular no path that
\* closes a session leaves that server's tools in the registry.
C1_ToolOwnerHasLiveSession ==
    \A id \in DOMAIN tools :
        \E s \in SessIds : sessions[s].name = tools[id].PluginID /\ Live(s)

\* C2: whenever no manager call is in progress, the (owner, name) pairs of
\* the registry are exactly the pairs (server, tool) of the tools the live
\* sessions discovered, one registry tool for each pair.  Stated for the
\* states in which the sessions the manager holds are exactly the live ones.
C2_RegistryIsUnionOfDiscoveries ==
    (Quiescent /\ Held = {s \in SessIds : Live(s)})
        => /\ {<<tools[id].PluginID, tools[id].Name>> : id \in DOMAIN tools}
                = UNION {{<<n, t>> : t \in Catalog[n]} : n \in DOMAIN servers}
           /\ \A n \in DOMAIN servers : \A t \in Catalog[n] :
                \E id \in DOMAIN tools :
                    tools[id].PluginID = n /\ tools[id].Name = t

\* C3: the registration step of a startServer(n, _) leaves in the registry,
\* for every tool t the server listed, a tool with id n ":" t and owner n.
C3_StartRegistersNamespacedIds ==
    [][\A t \in Threads :
        (pc[t] = "start_register" /\ pc'[t] = "start_store")
            => \A tn \in loc[t].found :
                /\ NamespacedID(call[t].name, tn) \in DOMAIN tools'
                /\ tools'[NamespacedID(call[t].name, tn)].PluginID
                       = call[t].name]_vars

\* C4: once stopServer(n) has returned, and until a startServer(n) or a
\* reloadServer(n) is invoked, the registry holds no tool owned by n and no
\* execute(n, ...) succeeds, whatever calls for n were in progress.
\* (stopped is cleared when a start or reload takes its first step under
\* m.mu, which is no earlier than its invocation: the formula asks no more
\* than the claim.)
C4_NothingOfStoppedServer ==
    /\ [](\A n \in stopped : OwnedBy(n) = {})
    /\ [][\A t \in Threads :
            (call[t].op = "execute" /\ call[t].name \in stopped
                /\ Finishes(t)) => res'[t] # "ok"]_vars

\* C5: stopServer(name) returns NotFound and changes neither the session
\* map nor the registry when name has no session; otherwise, at the moment
\* it closes the session, no tool registered from that session is left in
\* the registry.
C5_StopNotFoundOrUnregisterFirst ==
    [][\A t \in Threads :
        /\ (pc[t] = "stop_lookup" /\ pc'[t] # "stop_lookup"
                /\ call[t].op = "stop" /\ call[t].name \notin DOMAIN servers)
            => (res'[t] = "NotFound" /\ pc'[t] = "done"
                    /\ servers' = servers /\ tools' = tools)
        /\ (pc[t] = "stop_close" /\ pc'[t] # "stop_close")
            => (/\ sessions'[loc[t].sess].closed
                /\ \A id \in DOMAIN tools : regBy[id] # loc[t].sess)]_vars

\* two finished stopServer calls: one found no session, one closed a session
C5_Witness ==
    \E t, u \in Threads :
        /\ pc[t] = "done" /\ call[t].op = "stop" /\ res[t] = "NotFound"
        /\ pc[u] = "done" /\ call[u].op = "stop" /\ res[u] = "ok"
        /\ loc[u].sess # NoSess /\ sessions[loc[u].sess].closed

\* C6: at most one session per name is live at any time.
C6_OneLiveSessionPerName ==
    \A s1, s2 \in SessIds :
        (Live(s1) /\ Live(s2) /\ sessions[s1].name = sessions[s2].name)
            => s1 = s2

StartFailures == {"ConnectFailed", "ListFailed"}

\* C7: when a reloadServer(name, entry) returns the error of its start, name
\* is not in the session map, no session of that name is live and the
\* registry holds no tool owned by name.
C7_FailedReloadLeavesNotRunning ==
    [][\A t \in Threads :
        (call[t].op = "reload" /\ Finishes(t) /\ res'[t] \in StartFailures)
            => /\ call[t].name \notin DOMAIN servers'
               /\ \A s \in 1..Len(sessions') :
                    sessions'[s].name = call[t].name => sessions'[s].closed
               /\ \A id \in DOMAIN tools' :
                    tools'[id].PluginID # call[t].name]_vars

\* a reload that stopped a running session and then failed to list tools
C7_Witness ==
    \E t \in Threads :
        /\ pc[t] = "done" /\ call[t].op = "reload" /\ res[t] = "ListFailed"
        /\ \E s1, s2 \in SessIds :
            /\ sessions[s1].name = call[t].name /\ sessions[s1].listed
            /\ sessions[s1].closed
            /\ s2 = loc[t].sess /\ s2 # s1 /\ sessions[s2].closed

\* C8 as stated: a finished execute(name, ...) either found no session,
\* failed with NotFound and sent nothing, or sent exactly one tools/call and
\* returned according to the peer's reply.
C8_ExecuteDispatchesOnce ==
    \A t \in Threads :
        (pc[t] = "done" /\ call[t].op = "execute")
            => IF loc[t].sess = NoSess
               THEN res[t] = "NotFound" /\ loc[t].sent = 0
               ELSE loc[t].sent = 1 /\ res[t] = ExecResult(loc[t].reply)

\* C8 amended: as above, except that arguments that do not parse make
\* execute fail before anything is sent.
C8_ExecuteDispatchesOnceIfArgsParse ==
    \A t \in Threads :
        (pc[t] = "done" /\ call[t].op = "execute")
            => IF loc[t].sess = NoSess
               THEN res[t] = "NotFound" /\ loc[t].sent = 0
               ELSE IF ~call[t].argsOK
               THEN res[t] = "BadArguments" /\ loc[t].sent = 0
               ELSE /\ loc[t].sent = 1
                    /\ loc[t].reply = "result" => res[t] = "ok"
                    /\ loc[t].reply = "error" => res[t] = "CallFailed"
                    /\ loc[t].reply = "isError" => res[t] = "ToolError"

\* an execute whose peer answered with isError, next to one with bad arguments
C8_Witness ==
    \E t, u \in Threads :
        /\ pc[t] = "done" /\ call[t].op = "execute"
        /\ loc[t].reply = "isError" /\ res[t] = "ToolError"
        /\ pc[u] = "done" /\ call[u].op = "execute"
        /\ res[u] = "BadArguments" /\ loc[u].sess # NoSess

\* C9: every session reachable through the session map has completed its
\* connect and its first tools/list; a start that failed left no session
\* (connect) or a closed session that is not in the map and that registered
\* no tool (tools/list).
C9_OnlyDiscoveredSessionsVisible ==
    /\ \A n \in DOMAIN servers : sessions[servers[n]].listed
    /\ \A t \in Threads :
        (pc[t] = "done" /\ call[t].op \in {"start", "reload"})
            => /\ res[t] = "ConnectFailed" => loc[t].sess = NoSess
               /\ res[t] = "ListFailed" =>
                    /\ sessions[loc[t].sess].closed
                    /\ loc[t].sess \notin Held
                    /\ \A id \in DOMAIN tools : regBy[id] # loc[t].sess

\* a start that failed in tools/list next to a server that is visible
C9_Witness ==
    \E t \in Threads :
        /\ pc[t] = "done" /\ call[t].op = "start" /\ res[t] = "ListFailed"
        /\ DOMAIN servers # {}
        /\ call[t].name \notin DOMAIN servers

\* C10: when stopAll returns, every session that was in the session map
\* when it was invoked is closed, whether or not a Close returned an error.
C10_StopAllClosesEverySession ==
    \A t \in Threads :
        (pc[t] = "done" /\ call[t].op = "stopAll")
            => \A s \in loc[t].snap : sessions[s].closed

\* a stopAll over two sessions in which every Close returned an error
C10_Witness ==
    \E t \in Threads :
        /\ pc[t] = "done" /\ call[t].op = "stopAll"
        /\ Cardinality(loc[t].snap) = 2
        /\ loc[t].errs = loc[t].snap
        /\ \A s \in loc[t].snap : sessions[s].closed

\* ------------------------------------------------------- registry claims
\* the effect of one broadcast on the streams: a subscribed stream with room
\* gets the snapshot of the new tool set, and nothing else changes
BroadcastOnce ==
    /\ DOMAIN subs' = DOMAIN subs
    /\ closedCh' = closedCh
    /\ \A ch \in DOMAIN subs :
        subs'[ch] = IF subs[ch] = <<>> THEN <<sliceLocked(tools')>>
                                        ELSE subs[ch]

\* C12: registerTools(owner, tools) leaves the registry mapping the id of
\* every provided tool to that tool with owner as its owner, replacing what
\* was stored under that id, leaves every other tool unchanged, and
\* broadcasts one snapshot of the resulting tool set.
C12_RegisterToolsPostcondition ==
    [][\A n \in Names :
        RegRegister(n, Catalog[n]) =>
            LET ts == Catalog[n]
                ids == {ToolID(n, t) : t \in ts}
            IN
            /\ DOMAIN tools' = DOMAIN tools \cup ids
            /\ \A t \in ts : tools'[ToolID(n, t)] = Tool(ToolID(n, t), t, n)
            /\ \A id \in DOMAIN tools \ ids : tools'[id] = tools[id]
            /\ BroadcastOnce]_vars

\* a registration replaced b's tool x by a's, kept b's y, and a subscriber
\* received the snapshot of the result
C12_Witness ==
    /\ DOMAIN tools = {"x", "y"}
    /\ tools["x"].PluginID = "a" /\ tools["y"].PluginID = "b"
    /\ Len(hist) = 3 /\ hist[3] = sliceLocked(tools)
    /\ \E ch \in DOMAIN got :
        got[ch] # <<>> /\ got[ch][Len(got[ch])] = sliceLocked(tools)

\* C13: unregisterTools(owner) removes exactly the tools whose owner is
\* owner, leaves the tools of every other owner unchanged, and broadcasts one
\* snapshot of the resulting tool set.
C13_UnregisterToolsPostcondition ==
    [][\A n \in Names :
        RegUnregister(n) =>
            /\ DOMAIN tools' = {id \in DOMAIN tools : tools[id].PluginID # n}
            /\ \A id \in DOMAIN tools' : tools'[id] = tools[id]
            /\ BroadcastOnce]_vars

\* an unregistration removed a's tool and left b's, and a subscriber
\* received the snapshot of the result
C13_Witness ==
    /\ Len(hist) = 4
    /\ DOMAIN tools = {"y"} /\ tools["y"].PluginID = "b"
    /\ hist[4] = sliceLocked(tools)
    /\ hist[3] = sliceLocked(tools) \cup {Tool("x", "x", "a")}
    /\ \E ch \in DOMAIN got :
        got[ch] # <<>> /\ got[ch][Len(got[ch])] = sliceLocked(tools)

\* C14: subscribe() never waits, and returns a new stream that holds exactly
\* one snapshot, equal to the registry's tool set at that moment; it changes
\* neither the tool set nor any other stream.
C14_SubscribeDeliversInitialSnapshot ==
    /\ [](Cardinality(Channels) < MaxSubs => ENABLED RegSubscribe)
    /\ [][RegSubscribe =>
            /\ tools' = tools
            /\ \E ch \in DOMAIN subs' \ Channels :
                /\ DOMAIN subs' = DOMAIN subs \cup {ch}
                /\ subs'[ch] = <<sliceLocked(tools)>>
                /\ \A c \in DOMAIN subs : subs'[c] = subs[c]]_vars

\* a subscription made while the registry held tools, its initial snapshot
\* received
C14_Witness ==
    \E ch \in DOMAIN got :
        /\ Len(hist) = 2 /\ tools # EmptyMap
        /\ got[ch] = <<sliceLocked(tools)>>

\* the most recent snapshot a stream holds or has handed to its subscriber
Latest(ch) ==
    LET seen == got[ch] \o subs[ch] IN seen[Len(seen)]

\* C15: in every state (every registry call is atomic, so every state is one
\* in which the calls made so far have returned) the most recent snapshot
\* queued in or consumed from each subscribed stream equals the registry's
\* current tool set.
C15_LatestSnapshotIsCurrent ==
    \A ch \in DOMAIN subs : Latest(ch) = sliceLocked(tools)

\* C16: once register/unregister calls have ceased, a subscriber that keeps
\* receiving has, from some moment on, the registry's current tool set as
\* the last snapshot it received (unless its stream was unsubscribed).
C16_SubscriberEventuallyCurrent ==
    \A ch \in Chans :
        <>[](ch \in DOMAIN subs =>
                /\ got[ch] # <<>>
                /\ got[ch][Len(got[ch])] = sliceLocked(tools))

\* a is b with some elements left out
RECURSIVE IsSubseq(_, _)
IsSubseq(a, b) ==
    IF a = <<>> THEN TRUE
    ELSE IF b = <<>> THEN FALSE
    ELSE IF Head(a) = Head(b) THEN IsSubseq(Tail(a), Tail(b))
    ELSE IsSubseq(a, Tail(b))

\* C17: the snapshots a subscriber has received, followed by the ones queued
\* for it, are tool sets the registry held, in the order in which it held
\* them: they are the history of the registry with some states left out.
C17_SnapshotsFollowHistory ==
    \A ch \in Channels :
        IsSubseq(got[ch] \o (IF ch \in DOMAIN subs THEN subs[ch]
                                                   ELSE closedCh[ch].buf), hist)

\* a slow subscriber: it received two snapshots and missed the state between
C17_Witness ==
    \E ch \in DOMAIN got :
        /\ Len(got[ch]) = 2 /\ Len(hist) = 4
        /\ got[ch][1] = hist[2] /\ got[ch][2] = hist[4]
        /\ hist[3] \notin {hist[2], hist[4]}

\* C18: unsubscribe(stream) removes the stream from the subscriber set and
\* closes it; no closed stream is ever in the subscriber set, which is the
\* set broadcasts send to, and nothing is added to a closed stream.
C18_NoSendOnClosedStream ==
    /\ [](DOMAIN subs \cap DOMAIN closedCh = {})
    /\ [][/\ \A ch \in Chans : RegUnsubscribe(ch) =>
                (ch \notin DOMAIN subs' /\ ch \in DOMAIN closedCh')
          /\ \A ch \in DOMAIN closedCh :
                /\ ch \in DOMAIN closedCh'
                /\ Len(closedCh'[ch].buf) <= Len(closedCh[ch].buf)]_vars

\* a register call made after a stream was unsubscribed: the stream is
\* closed and empty, and the registry has changed since it was closed
C18_Witness ==
    \E ch \in DOMAIN closedCh :
        /\ closedCh[ch].buf = <<>> /\ got[ch] = <<{}>>
        /\ closedCh[ch].at < Len(hist)
        /\ sliceLocked(tools) # hist[closedCh[ch].at]

\* ----------------------------------------------------- reconciler claims
\* the names a config enables
EnabledNames(c) == {n \in DOMAIN c : ~c[n].Disabled}

\* the names for which the current reconciliation issued op, and how often
IssuedFor(op) == {n \in Names : \E i \in 1..Len(issued) : issued[i] = <<op, n>>}
TimesIssued(n) ==
    Cardinality({i \in 1..Len(issued) : issued[i][2] = n})

\* applyConfigChanges has run both loops and every call has returned
ReconcileDone == wpc = "adds" /\ wtodo = {} /\ pc[Main] = "idle"

\* C19: a reconciliation of the previous config with the new validated one
\* has issued stopServer exactly for the names enabled before and absent or
\* disabled now, startServer exactly for the names enabled now and absent or
\* disabled before, reloadServer exactly for the names enabled in both whose
\* entries differ; no name gets two actions, an unchanged name gets none.
C19_ReconcileIssuesExactlyTheDiff ==
    ReconcileDone =>
        LET old == EnabledNames(lastConfig)
            new == EnabledNames(newConfig)
        IN  /\ IssuedFor("stop") = old \ new
            /\ IssuedFor("start") = new \ old
            /\ IssuedFor("reload") =
                 {n \in old \cap new : lastConfig[n] # newConfig[n]}
            /\ \A n \in Names : TimesIssued(n) <= 1
            /\ \A n \in DOMAIN lastConfig \cap DOMAIN newConfig :
                 lastConfig[n] = newConfig[n] => TimesIssued(n) = 0

\* a reconciliation that reloaded a changed server and started a server that
\* was disabled before
C19_Witness ==
    /\ ReconcileDone
    /\ Validate(lastConfig)
    /\ \E n, m \in Names :
        /\ issued = << <<"reload", n>>, <<"start", m>> >>
        /\ m \in DOMAIN lastConfig /\ lastConfig[m].Disabled
        /\ n \in DOMAIN servers /\ servers[n] = 2
        /\ sessions[1].name = n /\ sessions[1].listed /\ sessions[1].closed

\* C20: a reconciliation whose new config equals the previous one issues no
\* manager call and changes neither the session map, nor any session, nor
\* the registry.
C20_SameConfigNoAction ==
    /\ [](wpc \in {"stops", "adds"} /\ newConfig = lastConfig
            => issued = <<>> /\ pc[Main] = "idle")
    /\ [][(wpc \in {"stops", "adds"} /\ newConfig = lastConfig)
            => (servers' = servers /\ sessions' = sessions
                    /\ tools' = tools)]_vars

\* a reconciliation with an unchanged config that has two running servers
C20_Witness ==
    /\ ReconcileDone
    /\ newConfig = lastConfig
    /\ EnabledNames(lastConfig) = Names
    /\ DOMAIN servers = Names

\* ------------------------------------------------------- shutdown claims
\* C11: once the deadline given to stopAll has expired, stopAll returns (main
\* goes on to exit), even if the close of some session never completes; and
\* every session that was in the session map is eventually closed, unless it
\* is one whose own close hangs.
C11_StopAllReturnsAfterGrace ==
    /\ (wpc = "stopall" /\ expired) ~> (wpc = "exited")
    /\ \A s \in 1..MaxSessions :
        (wpc = "stopall" /\ s \in Held)
            ~> (s \in SessIds /\ (sessions[s].closed \/ s \in hung))

\* --------------------------------------------- order within a reconciliation
\* the place of a manager call in the order Stop, Start, Reload
Rank(op) == CASE op = "stop" -> 1 [] op = "start" -> 2 [] op = "reload" -> 3

\* C21: the calls of one reconciliation are issued in the order Stop, Start,
\* Reload: no start is issued before a stop, and no reload before a start
\* or a stop.
C21_StopStartReloadOrder ==
    \A i, j \in 1..Len(issued) :
        i < j => Rank(issued[i][1]) <= Rank(issued[j][1])

\* ----------------------------------------------------- watcher loop claims
\* the goroutines inside handleConfigChange
Reconciling == {g \in Threads : rec[g].pc # "off"}

\* C25: at most one handleConfigChange runs at any time and at most one
\* manager call issued by the reconciler is in progress, so that nothing
\* reads w.lastConfig while another goroutine is about to write it.
C25_ReconcilerActionsSequential ==
    wpc = "watch" =>
        /\ Cardinality(Reconciling) <= 1
        /\ Cardinality({g \in Threads : pc[g] # "idle"}) <= 1

\* a timer has fired in this step: a goroutine begins handleConfigChange
Fires == \E g \in Threads : rec[g].pc = "off" /\ rec'[g].pc = "load"

\* C24: file events that follow one another within the debounce window are
\* one burst; a reconciliation starts only when the window has passed since
\* the last event, only once for the burst, and as long as the burst has
\* none exactly one timer is armed to start it.
C24_OneReconciliationPerBurst ==
    /\ [][Fires => (gap = Debounce /\ pending > 0 /\ pending' = 0)]_vars
    /\ [](pending > 0 => Len(timers) = 1)
    /\ [](pending = 0 => timers = <<>>)

\* the one reconciliation of a burst of two events has begun
C24_Witness ==
    /\ nwrites = 2
    /\ \E g \in Threads :
        /\ rec[g].pc = "load" /\ rec[g].burst = 2
        /\ Reconciling = {g}
    /\ timers = <<>>

\* the manager calls a reconciliation has to make: the name n, and the op
ActionsDue(old, new) ==
    {<<"stop", n>> : n \in DOMAIN old \ EnabledNames(new)}
        \cup {<<"start", n>> : n \in EnabledNames(new) \ DOMAIN old}
        \cup {<<"reload", n>> :
                n \in {m \in DOMAIN old \cap EnabledNames(new) : old[m] # new[m]}}

\* the manager calls the goroutine g has made and seen return
Logged(g) ==
    {<<rec[g].log[i][1], rec[g].log[i][2]>> : i \in 1..Len(rec[g].log)}

\* some manager call of the reconciliation in g has failed
SomeFailed(g) == \E i \in 1..Len(rec[g].log) : rec[g].log[i][3] # "ok"

\* C22: a reconciliation makes every manager call its diff asks for also
\* when calls before have failed; it then stores the new config as
\* w.lastConfig; and no step of a manager call changes the map entry or the
\* session of a name other than the one the call is for.
C22_FailuresDoNotStopReconciliation ==
    /\ [](\A g \in Threads :
            rec[g].pc = "commit" =>
                Logged(g) = ActionsDue(rec[g].old, rec[g].new))
    /\ [][\A g \in Threads :
            (rec[g].pc = "commit" /\ rec'[g].pc # "commit")
                => lastConfig' = rec[g].new]_vars
    /\ [][\A m \in Names :
            (\A g \in Threads : pc[g] = "idle" \/ call[g].name # m)
                => /\ (m \in DOMAIN servers) <=> (m \in DOMAIN servers')
                   /\ m \in DOMAIN servers =>
                        /\ servers'[m] = servers[m]
                        /\ sessions'[servers[m]] = sessions[servers[m]]]_vars

\* a reconciliation whose first call failed has gone on to reload a, and
\* is about to store the new config
C22_Witness ==
    \E g \in Threads :
        /\ rec[g].pc = "commit"
        /\ Len(rec[g].log) = 2
        /\ rec[g].log[1][3] # "ok"
        /\ rec[g].log[2] = <<"reload", "a", "ok">>
        /\ "a" \in Running

\* C23: when the file does not parse or the config does not validate,
\* handleConfigChange ends without a manager call and without changing
\* w.lastConfig, the session map, the sessions or the registry; only
\* configs that validate are applied.
C23_RejectedConfigTouchesNothing ==
    /\ [][\A g \in Threads :
            (/\ rec[g].pc = "load" /\ rec'[g].pc # "load"
             /\ (~file.parses \/ ~Validate(file.cfg)))
                => /\ rec'[g].pc = "off"
                   /\ rec'[g].out \in {"loadError", "invalid"}
                   /\ UNCHANGED <<lastConfig, servers, sessions, tools, pc,
                                  call>>]_vars
    /\ [](\A g \in Threads :
            rec[g].pc \in {"apply", "stops", "adds", "commit"}
                => Validate(rec[g].new))

\* handleConfigChange has rejected a config that does not validate while
\* the servers of the last config are running
C23_Witness ==
    /\ \E g \in Threads : rec[g].pc = "off" /\ rec[g].out = "invalid"
    /\ Reconciling = {}
    /\ file.parses /\ ~Validate(file.cfg)
    /\ Validate(lastConfig)
    /\ Running = EnabledNames(lastConfig) /\ Running # {}

\* the goroutine g ends its reconciliation in this step
Commits(g) == rec[g].pc = "commit" /\ rec'[g].pc = "off"

\* C26: when a reconciliation has stored the new config, every name with a
\* live session has an entry in w.lastConfig, and it is the entry the
\* session was started from.
C26_LiveSessionsMatchLastConfig ==
    [][\A g \in Threads :
        Commits(g) =>
            \A n \in Running :
                /\ n \in DOMAIN lastConfig'
                /\ sessions[servers[n]].cfg = lastConfig'[n]]_vars

\* C27: a reconciliation that began with the live sessions being those of
\* the names the previous config enables, and whose manager calls all
\* succeeded, ends with the session map holding exactly the names the new
\* config enables, each with a live session, and with no registry tool
\* owned by any other name.
C27_ReconcileReachesNewConfig ==
    \A g \in Threads :
        (rec[g].pc = "commit" /\ rec[g].pre /\ ~SomeFailed(g)) =>
            /\ DOMAIN servers = EnabledNames(rec[g].new)
            /\ Running = DOMAIN servers
            /\ \A n \in Names \ EnabledNames(rec[g].new) : OwnedBy(n) = {}

\* the names the config c holds with disabled set
DisabledNames(c) == {n \in DOMAIN c : c[n].Disabled}

\* C29: no StartServer or ReloadServer is called with a disabled entry; and
\* when the bulk load has ended (main goes on to create the watcher) or a
\* reconciliation has stored its config, no name that the config just
\* applied holds as disabled has a live session or owns a registry tool.
C29_DisabledServerContributesNothing ==
    /\ [](\A g \in Threads :
            call[g].op \in {"start", "reload"} => ~call[g].cfg.Disabled)
    /\ [][(wpc = "load" /\ wpc' # "load")
            => \A n \in DisabledNames(lastConfig) :
                 n \notin Running /\ OwnedBy(n) = {}]_vars
    /\ [][\A g \in Threads :
            Commits(g) => \A n \in DisabledNames(lastConfig') :
                            n \notin Running /\ OwnedBy(n) = {}]_vars

\* ------------------------------------------------- downstream adapter claims
\* C28: once the adapter has processed a snapshot, the names it has
\* published are exactly owner, ":", name for the tools of the last
\* snapshot processed; and every downstream call of a published name is
\* passed to Execute with the owner and the name of the tool published
\* under it.
C28_AdapterRepublishesSnapshot ==
    /\ \A ch \in DOMAIN got :
        got[ch] # <<>> =>
            /\ published = Desired(got[ch][Len(got[ch])])
            /\ registered = published
    /\ \A i \in 1..Len(forwarded) :
        /\ ~forwarded[i].to.err
        /\ forwarded[i].to.pluginID = forwarded[i].owner
        /\ forwarded[i].to.toolName = forwarded[i].tool

\* the request of caller c has begun and carries an id
Began(c) == sreq[c].pc # "idle" /\ sreq[c].kind = "request"

\* the id of the envelope whose result is r
IdOf(r) == emitted[r].id

\* the reader has read the reply of the peer to request i
ReplyRead(i) ==
    \E s \in 1..Len(emitted) :
        /\ emitted[s] = [id |-> i, extra |-> FALSE]
        /\ \A j \in 1..Len(stream) : stream[j] # Reply(i, s)

\* C30: concurrent requests on the event-stream transport carry distinct
\* ids, and in whatever order the peer replies each of them gets a reply
\* with its own id: the channel of a request only ever buffers an envelope
\* with that id, a request that returns a result returns such an envelope,
\* and once the reply to a request that is still waiting has been read
\* from a stream that was not closed, its channel holds an envelope.
C30_EachRequestGetsItsOwnReply ==
    /\ \A c, d \in Callers :
          Began(c) /\ Began(d) /\ c # d => sreq[c].id # sreq[d].id
    /\ \A c \in Callers :
          /\ \A j \in 1..Len(slot[c]) : IdOf(slot[c][j]) = sreq[c].id
          /\ sreq[c].pc \in {"cleanup", "done"} /\ sreq[c].err = ""
                => IdOf(sreq[c].result) = sreq[c].id
          /\ sreq[c].pc = "wait" /\ ReplyRead(sreq[c].id) /\ ~sseClosed
                => Len(slot[c]) = 1

\* every caller has made a request, the peer answered them in the reverse
\* of the order of their ids, and each has returned its own reply
C30_Witness ==
    /\ Len(emitted) = MaxRequests
    /\ \A j \in 1..(Len(emitted) - 1) : emitted[j].id > emitted[j + 1].id
    /\ \A j \in 1..Len(emitted) :
          \E c \in Callers :
              /\ sreq[c].id = emitted[j].id
              /\ sreq[c].pc = "done"
              /\ sreq[c].err = ""
              /\ sreq[c].result = j

\* the envelopes with the id i that the reader has read: written by the
\* peer to a stream that was never closed, and no longer in it
ReadWithId(i) ==
    {s \in 1..Len(emitted) :
        /\ emitted[s].id = i
        /\ ~sseClosed
        /\ \A j \in 1..Len(stream) : stream[j] # Reply(i, s)}

C34_CloseFailsWaitingRequests ==
    [][\A c \in Callers :
         /\ sseClosed
         /\ sreq[c].pc = "wait" /\ slot[c] = <<>>
         /\ sreq'[c].pc # "wait"
         => sreq'[c].err = "closed"]_vars

\* C35: SendNotification on a connected event-stream transport returns
\* nil or the error of a closed transport, and the process goes on.
C35_NotifySucceedsOrTransportClosed ==
    \A c \in Callers :
        sreq[c].kind = "notify" =>
            /\ sreq[c].pc # "panic"
            /\ sreq[c].err \in {"", "notConnected"}

\* the requests that are between their insert into the responses map and
\* the delete in their deferred function
InFlight == {c \in Callers : sreq[c].pc \in {"post", "wait", "cleanup"}}

C32_StdioResponseHasRequestId ==
    \A c \in StdioCallers :
        streq[c].pc = "done" /\ streq[c].err = ""
            => streq[c].result = Line("reply", streq[c].id)

\* C36: a stdio transport that was closed and started again stays
\* connected for as long as its new child runs and Close has not been
\* called on it.
C36_ReopenedTransportStaysConnected ==
    Cur >= 2 /\ children[Cur].alive /\ ~children[Cur].closed => sconn

\* C37: once a request on a stdio transport has failed because reading
\* the response failed, the transport is not connected (until it is
\* started again).
C37_FailedReadDisconnects ==
    \A c \in StdioCallers :
        streq[c].pc = "done" /\ streq[c].err = "read" /\ streq[c].gen = Cur
            => ~sconn

\* what the request may wait: the transport's default timeout, or the
\* time left until the caller's deadline when that is less
Allowed == IF treq.deadline = 0 THEN treq.default
           ELSE Min(treq.default, treq.deadline - treq.sent)

\* C33: on every transport a request waits for its reply for the smaller
\* of the transport's default timeout and the time to the caller's
\* deadline: it is not left waiting longer, and when it fails on a timer
\* it does so exactly that long after it was sent.
C33_TimeoutIsMinOfDefaultAndDeadline ==
    /\ treq.pc = "wait" => tclock - treq.sent <= Allowed
    /\ treq.pc = "done" /\ treq.err # "" => treq.ended - treq.sent = Allowed

\* the callers whose tools/call is in flight on session s: they hold the
\* lock of its MCPServer and have not returned from CallTool
Calling(s) == {t \in Threads : pc[t] = "exec_call" /\ loc[t].sess = s}

\* C39: at most one tools/call is in flight on a session at any time, the
\* caller in flight is the holder of that server's lock, and a caller
\* waiting for the lock of one server holds up nobody else.
C39_OneCallInFlightPerSession ==
    \A s \in SessIds :
        /\ Cardinality(Calling(s)) <= 1
        /\ \A t \in Threads : t \in Calling(s) <=> sessions[s].mu = t
        /\ sessions[s].mu = 0 => Calling(s) = {}

\* calls are in flight on the sessions of two servers at once
C39_Witness ==
    \E s1, s2 \in SessIds :
        /\ sessions[s1].name # sessions[s2].name
        /\ Calling(s1) # {} /\ Calling(s2) # {}

\* C40: once the config watcher has stopped, no reconciliation begins: no
\* goroutine enters handleConfigChange, whatever timer was armed before.
C40_NoReconciliationAfterStop ==
    [][wpc = "stopped" =>
         \A g \in Threads : rec[g].pc = "off" => rec'[g].pc = "off"]_vars
====
